---- MODULE Spec2Model ----
(***************************************************************************)
(* State machine of the vehicle cache / switchboard (VanManager) and of    *)
(* the availability prober of the 3D garage viewer.  One action is one     *)
(* run-to-completion step of the event loop: a call up to its first await, *)
(* or the continuation that runs when an awaited promise settles.          *)
(*                                                                         *)
(* Numbers with a fraction are kept as integers: scale and position in     *)
(* hundredths (1.0 -> 100, 0.42 -> 42), rotation in multiples of Math.PI.  *)
(***************************************************************************)
EXTENDS Integers, Sequences, FiniteSets, TLC

\* ---------------------------------------------------------------- bounds
\* van numbers a caller passes to loadVan / loadVanByNumber: 1..MaxVan
MaxVan == 2
\* number of indices one probe pass checks (the source checks 100)
MaxCheck == 2
\* loader invocations for vehicles over a whole run
MaxLoads == 3
\* vehicle loads in flight at the same time
MaxInFlight == 2
\* probe passes started over a run of the prober alone
MaxPasses == 2
\* probe passes started over a run that also loads vehicles
MaxStartupPasses == 1
\* configurations handed to one loadModels call
MaxBatch == 3
\* preloadAllVans calls in progress at once
MaxPreloads == 1
\* nodes of a vehicle graph handed to attachWheelsToVan on its own
MaxGraph == 4
\* children of a model handed to getModelInfo
MaxMeshes == 3
\* animation frames requested in one run
MaxFrames == 3

\* ------------------------------------------------------------- constants
\* JavaScript null for an object reference (a scene node index otherwise)
NoNode == 0
\* JavaScript null for currentVanId
null == "null"
\* CONFIG.models.vans.defaultScale = 1.0
defaultScale == 100
\* CONFIG.models.vans.defaultPosition = { x: 0, y: 0.42, z: 0 }
defaultPosition == <<0, 42, 0>>
\* CONFIG.models.vans.basePath
basePath == "models/vans/"
\* const checkCount = 100, reduced to the bound MaxCheck
checkCount == MaxCheck
\* const checkCount = 100, as the source has it
checkCountInSource == 100

\* ------------------------------------------------------- string helpers
\* one decimal digit as a character
Digit(d) == <<"0", "1", "2", "3", "4", "5", "6", "7", "8", "9">>[d + 1]

RECURSIVE String(_)
\* String(n) for a non-negative integer n: its decimal digits
String(n) == IF n < 10 THEN Digit(n) ELSE String(n \div 10) \o Digit(n % 10)

RECURSIVE padStart(_, _, _)
\* s.padStart(len, ch): ch is prepended until s has len characters
padStart(s, len, ch) == IF Len(s) >= len THEN s ELSE padStart(ch \o s, len, ch)

\* CONFIG.models.vans.getFilename
getFilename(vanNumber) == "van-" \o padStart(String(vanNumber), 3, "0") \o ".glb"

\* an id built from the number as it is, without padding
getVanIdUnpadded(vanNumber) == "van-" \o String(vanNumber)

\* CONFIG.models.vans.getVanId
getVanId(vanNumber) == "van-" \o padStart(String(vanNumber), 3, "0")

\* the ids callers ask for
VanIds == {getVanId(n) : n \in 1..MaxVan}

\* -------------------------------------------------------------- configs
\* CONFIG.models.vans.list: the statically declared vehicles
staticList ==
    << [id |-> "van-001", name |-> "Van 001", filename |-> "van-001.glb",
        thumbnail |-> "thumbnails/van-001.jpg",
        scale |-> 100, position |-> <<0, 42, 0>>, rotation |-> <<0, 1, 0>>] >>

\* the config a successful existence check of index i produces
DetectedConfig(i) ==
    [id |-> getVanId(i),
     name |-> "Van " \o padStart(String(i), 3, "0"),
     filename |-> getFilename(i),
     thumbnail |-> "thumbnails/van-" \o padStart(String(i), 3, "0") \o ".jpg",
     number |-> i,
     scale |-> defaultScale,
     position |-> defaultPosition,
     rotation |-> <<0, 1, 0>>]

\* the config loadVanByNumber stores in the cache entry
NumberConfig(vanNumber) ==
    [id |-> getVanId(vanNumber),
     name |-> "Van " \o padStart(String(vanNumber), 3, "0"),
     filename |-> getFilename(vanNumber),
     thumbnail |-> "thumbnails/van-" \o padStart(String(vanNumber), 3, "0") \o ".jpg"]

\* Array.prototype.find on a list of configs by id: <<config>> or <<>> (undefined)
FindById(list, id) ==
    LET hits == {i \in 1..Len(list) : list[i].id = id}
    IN IF hits = {} THEN <<>>
       ELSE << list[CHOOSE i \in hits : \A j \in hits : i <= j] >>

VARIABLES
    nodes,          \* every vehicle scene node the loader has produced
    vans,           \* this.vans: id -> cache entry
    currentVan,     \* this.currentVan: a node, or NoNode
    currentVanId,   \* this.currentVanId
    availableVans,  \* this.availableVans
    vansDetected,   \* this.vansDetected
    requests,       \* vehicle loads awaiting modelLoader.loadModel
    loaderCalls,    \* id -> number of loadModel invocations for the vehicle
    loaderOk,       \* id -> number of those that resolved
    passes,         \* probe passes awaiting Promise.all(checkPromises)
    passCount,      \* probe passes started
    headCalls,      \* fetch(..., {method: 'HEAD'}) calls issued
    overlapped,     \* whether a load was ever started while another was in flight
    lastResult,     \* how the call that settled last settled
    disposed,       \* whether dispose() has run
    wheelModel,     \* this.wheelModel: null or the wheel scene
    wheelPending,   \* whether loadWheelModel still awaits its loadModel
    smallLoader,    \* style.display of the small loader
    vanList,        \* the ids of the .van-item elements, in order
    activeItems,    \* the ids of the .van-item elements with class active
    modelInfo,      \* textContent of the van name element
    selections,     \* rids of the loads an onVanSelect call awaits
    selected,       \* whether an onVanSelect call has got its vehicle yet
    batch,          \* the loadModels call in progress
    preloads,       \* preloadAllVans calls awaiting Promise.allSettled
    call,           \* argument of a function applied on its own
    ret,            \* what that function returned
    initPc,         \* where GarageApp.init stands
    awaited,        \* the probe pass or the vehicle load init is waiting for
    garageModel,    \* this.garageModel
    garageAdded,    \* the garage nodes handed to scene.addObject, in order
    garageResult,   \* how the promise of loadGarage settled
    loadingScreen,  \* style.display of the loading screen
    isRunning,      \* GarageApp.isRunning
    animationId,    \* GarageApp.animationId: a frame request id, 0 for null
    frames,         \* the requestAnimationFrame callbacks still pending
    frameCount,     \* requestAnimationFrame calls made
    rendered        \* rendererManager.render calls made

wheelVars == <<wheelModel, wheelPending>>
uiVars == <<smallLoader, vanList, activeItems, modelInfo, selections, selected>>
pureVars == <<call, ret>>
loopVars == <<isRunning, animationId, frames, frameCount, rendered>>
appVars == <<initPc, awaited, garageModel, garageAdded, garageResult, loadingScreen,
            loopVars>>

vars == <<nodes, vans, currentVan, currentVanId, availableVans, vansDetected,
          requests, loaderCalls, loaderOk, passes, passCount, headCalls,
          overlapped, lastResult, disposed, wheelVars, uiVars, batch, preloads,
          pureVars, appVars>>

\* what the vehicle requests and the probe do not write
otherVars == <<disposed, wheelVars, uiVars, batch, preloads, pureVars, appVars>>

vanVars == <<nodes, vans, currentVan, currentVanId, requests, loaderCalls, loaderOk,
            overlapped>>
probeVars == <<availableVans, vansDetected, passes, passCount, headCalls>>

\* ----------------------------------------------------------- scene nodes
\* the nodes that are attached to the scene and have visible = true
VisibleNodes(ns) == {n \in 1..Len(ns) : ns[n].parent = "scene" /\ ns[n].visible}

\* a cache lookup that never finds the entry
HasNever(vs, id) == FALSE

\* this.vans.has(id)
Has(vs, id) == id \in DOMAIN vs

\* a request that leaves the current vehicle shown
HideNothing(ns, cur) == ns

\* if (this.currentVan) this.currentVan.visible = false
HideCurrent(ns, cur) ==
    IF cur # NoNode THEN [ns EXCEPT ![cur].visible = FALSE] ELSE ns

\* a catch block that does not re-show the current vehicle
ReshowNothing(ns, cur) == ns

\* catch block of loadVan: if (this.currentVan) this.currentVan.visible = true
ReshowCurrent(ns, cur) ==
    IF cur # NoNode THEN [ns EXCEPT ![cur].visible = TRUE] ELSE ns

\* switchToVan that shows the new node without hiding the current one
SwitchNodesNoHide(ns, cur, node) ==
    [ns EXCEPT ![node].parent = "scene", ![node].visible = TRUE,
               ![node].adds = IF ns[node].parent = "null" THEN @ + 1 ELSE @]

\* switchToVan that hands the node to scene.addObject on every switch
SwitchNodesAlwaysAttach(ns, cur, node) ==
    [ns EXCEPT ![cur].visible = IF cur # NoNode /\ cur # node THEN FALSE ELSE @,
               ![node].parent = "scene", ![node].visible = TRUE,
               ![node].adds = @ + 1]

\* switchToVan, the scene part: hide the current node, hand the node of the
\* entry to scene.addObject if it has no parent, make it visible; adds counts
\* the addObject calls for the node
SwitchNodes(ns, cur, node) ==
    LET hidden == HideCurrent(ns, cur)
    IN [hidden EXCEPT ![node].parent = "scene", ![node].visible = TRUE,
                      ![node].adds = IF hidden[node].parent = "null" THEN @ + 1 ELSE @]

\* a lookup that searches the detected list first
ResolveConfigDetectedFirst(truckId, detected) ==
    IF FindById(detected, truckId) # <<>>
    THEN FindById(detected, truckId)
    ELSE FindById(staticList, truckId)

\* loadVan: the static list is searched first, the detected list second
ResolveConfig(truckId, detected) ==
    IF FindById(staticList, truckId) # <<>>
    THEN FindById(staticList, truckId)
    ELSE FindById(detected, truckId)

\* ----------------------------------------------------------- getModelInfo
\* polygonCount is a JavaScript number, an IEEE 754 double. Every value it takes
\* is a sum of thirds, so a double is kept as [n, d]: the value n/3 + d * u with
\* u = 2^-54 / 3, n the exact number of thirds and d what rounding added.
Pow2(k) == 2^k

\* n/3 + d * u >= 2^k
AtLeastPow2(n, d, k) == n > 3 * Pow2(k) \/ (n = 3 * Pow2(k) /\ d >= 0)

\* j such that the doubles next to n/3 + d * u are 3 * 2^j * u apart (52
\* fraction bits): 0 for a value in [1/4, 1/2), 1 in [1/2, 1), 2 in [1, 2), ...
RECURSIVE UlpFrom(_, _, _)
UlpFrom(n, d, k) == IF AtLeastPow2(n, d, k) THEN UlpFrom(n, d, k + 1) ELSE k + 1

Ulp(n, d) == IF n = 1 THEN 0 ELSE UlpFrom(n, d, 0)

\* 2^54 modulo 3 * 2^j
Pow54Mod(j) == Pow2(j) * (IF (54 - j) % 2 = 0 THEN 1 ELSE 2)

\* the neighbour of n/3 + d * u among the doubles that are m * u apart, given
\* its distance r * u to the one below and r2 * u to the even one below
Nearest(n, d, m, r, r2) ==
    IF r = 0 THEN [n |-> n, d |-> d]
    ELSE IF 2 * r < m THEN [n |-> n, d |-> d - r]
    ELSE IF 2 * r > m THEN [n |-> n, d |-> d + m - r]
    ELSE IF r2 < m THEN [n |-> n, d |-> d - r] ELSE [n |-> n, d |-> d + m - r]

\* the double nearest to n/3 + d * u, ties to the even one; every operand is
\* bound to its value before it is used
RoundToDouble(n, d) ==
    IF n = 0 THEN [n |-> 0, d |-> 0]
    ELSE CHOOSE x \in
            {CHOOSE y \in {Nearest(a, b, 3 * Pow2(j), r, r2) :
                              r \in {(a * Pow54Mod(j) + b) % (3 * Pow2(j))},
                              r2 \in {(a * Pow54Mod(j + 1) + b) % (6 * Pow2(j))}} : TRUE :
               a \in {n}, b \in {d}, j \in {Ulp(n, d)}} : TRUE

\* count / 3
DivideBy3(count) == RoundToDouble(count, 0)

\* x + y
Plus(x, y) == RoundToDouble(x.n + y.n, x.d + y.d)

\* Math.floor(x)
MathFloor(x) == IF x.n % 3 # 0 \/ x.d >= 0 THEN x.n \div 3 ELSE (x.n \div 3) - 1

\* the traverse callback of getModelInfo on one node: nothing for a node that
\* is no mesh or has no geometry; geometry.attributes.position.count of a
\* geometry without that attribute is a TypeError
CountChild(acc, child) ==
    IF acc.status # "returned" THEN acc
    ELSE IF ~child.isMesh \/ child.geometry = <<>> THEN acc
    ELSE LET geometry == child.geometry[1]
         IN IF geometry.position = <<>>
            THEN [status |-> "TypeError"]
            ELSE [status |-> "returned",
                  polygonCount |->
                      Plus(acc.polygonCount,
                           IF geometry.index # <<>>
                           THEN DivideBy3(geometry.index[1])
                           ELSE DivideBy3(geometry.position[1])),
                  vertexCount |-> acc.vertexCount + geometry.position[1]]

RECURSIVE Traverse(_, _, _)
\* model.traverse(callback) from the k-th node on; the counts so far are bound
\* to their value before the callback reads them
Traverse(children, k, acc) ==
    IF k > Len(children) THEN acc
    ELSE CHOOSE counted \in {Traverse(children, k + 1, CountChild(a, children[k])) :
                                a \in {acc}} : TRUE

\* the return statement of getModelInfo; the bounding box is the library's and
\* is left out
ModelInfo(counted) ==
    IF counted.status # "returned" THEN counted
    ELSE [status |-> "returned",
          polygonCount |-> MathFloor(counted.polygonCount),
          vertexCount |-> counted.vertexCount]

\* getModelInfo(model): the model and the counts are bound to their values
getModelInfo(model) ==
    CHOOSE info \in
        {CHOOSE i \in {ModelInfo(counted) :
                          counted \in {Traverse(m, 1, [status |-> "returned",
                                                       polygonCount |-> [n |-> 0, d |-> 0],
                                                       vertexCount |-> 0])}} : TRUE :
           m \in {model}} : TRUE

\* const wheelPositions = ['FL', 'FR', 'RL', 'RR']
wheelPositions == {"FL", "FR", "RL", "RR"}

\* a named node of a loaded graph, with its local transform: the body is a mesh
\* with an indexed geometry of 36 indices over 24 positions, a mount point is an
\* empty object
GraphNode(name, x, z) ==
    [name |-> name, position |-> <<x, 0, z>>, rotation |-> <<0, 0, 0>>, scale |-> 100,
     isMesh |-> name = "body",
     geometry |-> IF name = "body" THEN <<[index |-> <<36>>, position |-> <<24>>]>>
                  ELSE <<>>]

\* the mesh of the wheel file: an unindexed geometry of 6 positions
wheelMesh == [isMesh |-> TRUE, geometry |-> <<[index |-> <<>>, position |-> <<6>>]>>]

\* gltf.scene of a vehicle file: the first vehicle has the four mount points,
\* the second has none, any other has the front pair
Graph(id) ==
    IF id = getVanId(1)
    THEN <<GraphNode("body", 0, 0), GraphNode("FL", 1, 2), GraphNode("FR", -1, 2),
           GraphNode("RL", 1, -2), GraphNode("RR", -1, -2)>>
    ELSE IF id = getVanId(2)
    THEN <<GraphNode("body", 0, 0)>>
    ELSE <<GraphNode("body", 0, 0), GraphNode("FL", 1, 2), GraphNode("FR", -1, 2)>>

\* the scene node loadModel resolves with: gltf.scene with the transform applied;
\* a new Object3D is visible, has no parent and was never handed to addObject
NewNode(id, scale, position, rotation) ==
    [van |-> id, visible |-> TRUE, parent |-> "null",
     scale |-> scale, position |-> position, rotation |-> rotation,
     graph |-> Graph(id), wheels |-> <<>>, adds |-> 0]

\* attachWheelsToVan that clones a wheel for every node of the graph
attachWheelsToEveryNode(vanModel, wheel) ==
    IF wheel = null THEN vanModel
    ELSE [vanModel EXCEPT !.wheels = @ \o
            [k \in 1..Len(vanModel.graph) |->
                [model |-> wheel, position |-> vanModel.graph[k].position,
                 rotation |-> vanModel.graph[k].rotation,
                 scale |-> vanModel.graph[k].scale]]]

\* attachWheelsToVan without the test of this.wheelModel
attachWheelsUnguarded(vanModel, wheel) ==
    [vanModel EXCEPT !.wheels = @ \o
        [k \in 1..Len(vanModel.graph) |->
            [model |-> wheel, position |-> vanModel.graph[k].position,
             rotation |-> vanModel.graph[k].rotation,
             scale |-> vanModel.graph[k].scale]]]

\* attachWheelsToVan(vanModel): one wheel clone per node named FL, FR, RL or RR,
\* with the node's position, rotation and scale, added to the root
attachWheelsToVan(vanModel, wheel) ==
    LET foundNulls == SelectSeq(vanModel.graph, LAMBDA child : child.name \in wheelPositions)
    IN IF wheel = null THEN vanModel
       ELSE IF Len(foundNulls) = 0 THEN vanModel
       ELSE [vanModel EXCEPT !.wheels = @ \o
               [k \in 1..Len(foundNulls) |->
                   [model |-> wheel, position |-> foundNulls[k].position,
                    rotation |-> foundNulls[k].rotation,
                    scale |-> foundNulls[k].scale]]]

\* vanModel.children.length: the graph is flat, its nodes are the root's children
ChildCount(vanModel) == Len(vanModel.graph) + Len(vanModel.wheels)

\* the nodes model.traverse visits: the root, a Group, then the nodes of the
\* graph, then the meshes of the wheel clones
Traversed(vanModel) ==
    <<[isMesh |-> FALSE, geometry |-> <<>>]>>
    \o [k \in 1..Len(vanModel.graph) |->
           [isMesh |-> vanModel.graph[k].isMesh, geometry |-> vanModel.graph[k].geometry]]
    \o [k \in 1..Len(vanModel.wheels) |-> wheelMesh]

\* the loader invocations so far
TotalLoads == LET RECURSIVE Sum(_)
                  Sum(S) == IF S = {} THEN 0
                            ELSE LET x == CHOOSE y \in S : TRUE
                                 IN loaderCalls[x] + Sum(S \ {x})
              IN Sum(DOMAIN loaderCalls)

NoResult == [op |-> "none", arg |-> "", status |-> "none"]
NoBatch == [status |-> "none"]
NoCall == [fn |-> "none"]

\* the constructor has started loadWheelModel; nothing else is in progress
InitOther ==
    /\ disposed = FALSE
    /\ wheelModel = null
    /\ wheelPending = TRUE
    /\ smallLoader = "none"
    /\ vanList = <<>>
    /\ activeItems = {}
    /\ modelInfo = ""
    /\ selections = {}
    /\ selected = FALSE
    /\ batch = NoBatch
    /\ preloads = {}

InitManager ==
    /\ nodes = <<>>
    /\ vans = <<>>
    /\ currentVan = NoNode
    /\ currentVanId = null
    /\ availableVans = <<>>
    /\ vansDetected = FALSE
    /\ requests = {}
    /\ loaderCalls = [id \in VanIds |-> 0]
    /\ loaderOk = [id \in VanIds |-> 0]
    /\ passes = {}
    /\ passCount = 0
    /\ headCalls = 0
    /\ overlapped = FALSE
    /\ lastResult = NoResult
    /\ InitOther

\* the constructor of GarageApp: nothing runs, no frame was ever requested
InitLoop ==
    /\ isRunning = FALSE
    /\ animationId = 0
    /\ frames = {}
    /\ frameCount = 0
    /\ rendered = 0

\* the manager used on its own: no application is starting up
InitStandalone ==
    /\ initPc = "unused"
    /\ awaited = 0
    /\ garageModel = null
    /\ garageAdded = <<>>
    /\ garageResult = "none"
    /\ loadingScreen = "none"
    /\ InitLoop

Init ==
    /\ InitManager
    /\ InitStandalone
    /\ call = NoCall
    /\ ret = NoCall

\* ------------------------------------------------------- vehicle requests
\* a store that drops every other entry
StoreAlone(vs, id, entry) == [x \in {id} |-> entry]

\* this.vans.set(id, entry)
StoreEntry(vs, id, entry) ==
    [x \in (DOMAIN vs) \cup {id} |-> IF x = id THEN entry ELSE vs[x]]

\* `value || fallback` on an optional, numeric config field
OrDefault(config, fld, fallback) ==
    IF fld \in DOMAIN config /\ config[fld] # 0 THEN config[fld] ELSE fallback

\* loadVan(truckId), up to its first await
LoadVan(truckId) ==
    LET hidden == HideCurrent(nodes, currentVan)
        found == ResolveConfig(truckId, availableVans)
    IN /\ IF Has(vans, truckId)
          THEN \* return this.switchToVan(truckId)
               /\ nodes' = SwitchNodes(hidden, currentVan, vans[truckId].model)
               /\ currentVan' = vans[truckId].model
               /\ currentVanId' = truckId
               /\ lastResult' = [op |-> "loadVan", arg |-> truckId,
                                 status |-> "resolved", value |-> vans[truckId]]
               /\ UNCHANGED <<vans, requests, loaderCalls, loaderOk, overlapped>>
          ELSE IF found = <<>>
          THEN \* throw new Error(`Van with ID ... not found ...`)
               /\ nodes' = hidden
               /\ lastResult' = [op |-> "loadVan", arg |-> truckId,
                                 status |-> "NotFound"]
               /\ UNCHANGED <<vans, currentVan, currentVanId, requests,
                              loaderCalls, loaderOk, overlapped>>
          ELSE \* await this.modelLoader.loadModel(truckPath, ...)
               /\ TotalLoads < MaxLoads
               /\ Cardinality(requests) < MaxInFlight
               /\ nodes' = hidden
               /\ requests' = requests \cup
                    {[rid |-> TotalLoads + 1, op |-> "loadVan", id |-> truckId,
                      path |-> basePath \o found[1].filename,
                      config |-> found[1], shown |-> VisibleNodes(nodes)]}
               /\ loaderCalls' = [loaderCalls EXCEPT ![truckId] = @ + 1]
               /\ overlapped' = (overlapped \/ requests # {})
               /\ UNCHANGED <<vans, currentVan, currentVanId, loaderOk, lastResult>>
       /\ UNCHANGED probeVars

\* loadVan after loadModel resolved with the graph `scene`: attach the wheels,
\* compute the info, store the entry, switch to it, return it. A node stands for
\* the root of the loaded graph; the entry's animations are not part of the
\* state. getModelInfo is evaluated before this.vans.set is called: when it
\* throws, nothing is stored and the catch block runs.
LoadVanDecoded(r, scene) ==
    \E node \in {attachWheelsToVan(
                    [NewNode(r.id,
                             OrDefault(r.config, "scale", defaultScale),
                             IF "position" \in DOMAIN r.config THEN r.config.position
                                                               ELSE defaultPosition,
                             IF "rotation" \in DOMAIN r.config THEN r.config.rotation
                                                               ELSE <<0, 1, 0>>)
                        EXCEPT !.graph = scene],
                    wheelModel)} :
    \E info \in {getModelInfo(Traversed(node))} :
    LET n == Len(nodes) + 1
        entry == [model |-> n, config |-> r.config,
                  info |-> [polygonCount |-> info.polygonCount,
                            vertexCount |-> info.vertexCount]]
    IN /\ r.op = "loadVan"
       /\ IF info.status = "returned"
          THEN /\ vans' = StoreEntry(vans, r.id, entry)
               /\ nodes' = SwitchNodes(Append(nodes, node), currentVan, n)
               /\ currentVan' = n
               /\ currentVanId' = r.id
               /\ lastResult' = [op |-> "loadVan", arg |-> r.id, rid |-> r.rid,
                                 status |-> "resolved", value |-> entry]
          ELSE /\ nodes' = ReshowCurrent(nodes, currentVan)
               /\ lastResult' = [op |-> "loadVan", arg |-> r.id, rid |-> r.rid,
                                 status |-> info.status]
               /\ UNCHANGED <<vans, currentVan, currentVanId>>
       /\ requests' = requests \ {r}
       /\ loaderOk' = [loaderOk EXCEPT ![r.id] = @ + 1]
       /\ UNCHANGED <<loaderCalls, overlapped>>
       /\ UNCHANGED probeVars

\* loadVan after loadModel resolved with the graph of the vehicle's file
LoadVanResolve(r) == LoadVanDecoded(r, Graph(r.id))

\* a catch block that also forgets which vehicle is current
LoadVanRejectForgetsCurrent(r) ==
    /\ r.op = "loadVan"
    /\ nodes' = ReshowCurrent(nodes, currentVan)
    /\ requests' = requests \ {r}
    /\ currentVanId' = null
    /\ lastResult' = [op |-> "loadVan", arg |-> r.id, rid |-> r.rid,
                      status |-> "LoadError"]
    /\ UNCHANGED <<vans, currentVan, loaderCalls, loaderOk, overlapped>>
    /\ UNCHANGED probeVars

\* loadVan after loadModel rejected: the catch block
LoadVanReject(r) ==
    /\ r.op = "loadVan"
    /\ nodes' = ReshowCurrent(nodes, currentVan)
    /\ requests' = requests \ {r}
    /\ lastResult' = [op |-> "loadVan", arg |-> r.id, rid |-> r.rid,
                      status |-> "LoadError"]
    /\ UNCHANGED <<vans, currentVan, currentVanId, loaderCalls, loaderOk, overlapped>>
    /\ UNCHANGED probeVars

\* loadVanByNumber(vanNumber), up to its first await
LoadVanByNumber(vanNumber) ==
    LET vanId == getVanId(vanNumber)
    IN /\ IF Has(vans, vanId)
          THEN \* return this.switchToVan(vanId)
               /\ nodes' = SwitchNodes(nodes, currentVan, vans[vanId].model)
               /\ currentVan' = vans[vanId].model
               /\ currentVanId' = vanId
               /\ lastResult' = [op |-> "loadVanByNumber", arg |-> vanId,
                                 status |-> "resolved", value |-> vans[vanId]]
               /\ UNCHANGED <<vans, requests, loaderCalls, loaderOk, overlapped>>
          ELSE /\ TotalLoads < MaxLoads
               /\ Cardinality(requests) < MaxInFlight
               /\ requests' = requests \cup
                    {[rid |-> TotalLoads + 1, op |-> "loadVanByNumber", id |-> vanId,
                      path |-> basePath \o getFilename(vanNumber),
                      config |-> NumberConfig(vanNumber),
                      shown |-> VisibleNodes(nodes)]}
               /\ loaderCalls' = [loaderCalls EXCEPT ![vanId] = @ + 1]
               /\ overlapped' = (overlapped \/ requests # {})
               /\ UNCHANGED <<nodes, vans, currentVan, currentVanId, loaderOk,
                              lastResult>>
       /\ UNCHANGED probeVars

\* loadVanByNumber after loadModel resolved with the graph `scene`; its catch
\* block logs and rethrows
LoadVanByNumberDecoded(r, scene) ==
    \E node \in {attachWheelsToVan(
                    [NewNode(r.id, defaultScale, defaultPosition, <<0, 1, 0>>)
                        EXCEPT !.graph = scene],
                    wheelModel)} :
    \E info \in {getModelInfo(Traversed(node))} :
    LET n == Len(nodes) + 1
        entry == [model |-> n, config |-> r.config,
                  info |-> [polygonCount |-> info.polygonCount,
                            vertexCount |-> info.vertexCount]]
    IN /\ r.op = "loadVanByNumber"
       /\ IF info.status = "returned"
          THEN /\ vans' = StoreEntry(vans, r.id, entry)
               /\ nodes' = SwitchNodes(Append(nodes, node), currentVan, n)
               /\ currentVan' = n
               /\ currentVanId' = r.id
               /\ lastResult' = [op |-> "loadVanByNumber", arg |-> r.id, rid |-> r.rid,
                                 status |-> "resolved", value |-> entry]
          ELSE /\ lastResult' = [op |-> "loadVanByNumber", arg |-> r.id, rid |-> r.rid,
                                 status |-> info.status]
               /\ UNCHANGED <<nodes, vans, currentVan, currentVanId>>
       /\ requests' = requests \ {r}
       /\ loaderOk' = [loaderOk EXCEPT ![r.id] = @ + 1]
       /\ UNCHANGED <<loaderCalls, overlapped>>
       /\ UNCHANGED probeVars

\* loadVanByNumber after loadModel resolved with the graph of the vehicle's file
LoadVanByNumberResolve(r) == LoadVanByNumberDecoded(r, Graph(r.id))

\* loadVanByNumber after loadModel rejected: log and rethrow
LoadVanByNumberReject(r) ==
    /\ r.op = "loadVanByNumber"
    /\ requests' = requests \ {r}
    /\ lastResult' = [op |-> "loadVanByNumber", arg |-> r.id, rid |-> r.rid,
                      status |-> "LoadError"]
    /\ UNCHANGED <<nodes, vans, currentVan, currentVanId, loaderCalls, loaderOk,
                   overlapped>>
    /\ UNCHANGED probeVars

\* switchToVan(truckId) called directly
SwitchToVan(truckId) ==
    /\ IF ~Has(vans, truckId)
       THEN \* throw new Error(`Van ... not loaded yet`)
            /\ lastResult' = [op |-> "switchToVan", arg |-> truckId,
                              status |-> "NotLoaded"]
            /\ UNCHANGED <<nodes, currentVan, currentVanId>>
       ELSE /\ nodes' = SwitchNodes(nodes, currentVan, vans[truckId].model)
            /\ currentVan' = vans[truckId].model
            /\ currentVanId' = truckId
            /\ lastResult' = [op |-> "switchToVan", arg |-> truckId,
                              status |-> "resolved", value |-> vans[truckId]]
    /\ UNCHANGED <<vans, requests, loaderCalls, loaderOk, overlapped>>
    /\ UNCHANGED probeVars

\* ------------------------------------------------------------------ probe
\* a check promise without the .catch: a rejected fetch rejects it
CheckPromiseNoCatch(i, outcome) ==
    IF outcome = "ok"
    THEN [state |-> "fulfilled", value |-> << [id |-> getVanId(i), number |-> i] >>]
    ELSE IF outcome = "error" THEN [state |-> "rejected"]
    ELSE [state |-> "fulfilled", value |-> <<>>]

\* how one check promise settles, after its .then and .catch: fulfilled with
\* <<config>> for an ok response, with <<>> (null) for a not-ok response, and,
\* by .catch(() => null), with <<>> for a rejected fetch
CheckPromise(i, outcome) ==
    IF outcome = "ok"
    THEN [state |-> "fulfilled", value |-> << DetectedConfig(i) >>]
    ELSE [state |-> "fulfilled", value |-> <<>>]

RECURSIVE InsertDescending(_, _)
\* Insert with the comparator reversed: (a, b) => b.number - a.number
InsertDescending(sorted, x) ==
    IF sorted = <<>> THEN <<x>>
    ELSE IF sorted[1].number - x.number < 0 THEN <<x>> \o sorted
    ELSE <<sorted[1]>> \o InsertDescending(Tail(sorted), x)

RECURSIVE Insert(_, _)
\* x placed into a list sorted by number, after the elements that are not larger
Insert(sorted, x) ==
    IF sorted = <<>> THEN <<x>>
    ELSE IF x.number - sorted[1].number < 0 THEN <<x>> \o sorted
    ELSE <<sorted[1]>> \o Insert(Tail(sorted), x)

RECURSIVE SortByNumber(_)
\* detectedVans.sort((a, b) => a.number - b.number), a stable sort
SortByNumber(list) ==
    IF list = <<>> THEN <<>>
    ELSE Insert(SortByNumber(SubSeq(list, 1, Len(list) - 1)), list[Len(list)])

RECURSIVE Collect(_, _)
\* results.forEach(result => { if (result) detectedVans.push(result) }) over
\* the first k results
Collect(results, k) ==
    IF k = 0 THEN <<>> ELSE Collect(results, k - 1) \o results[k]

\* what a pass whose checks all settled assigns to this.availableVans
DetectedVans(outcome) ==
    LET results == [i \in 1..checkCount |-> CheckPromise(i, outcome[i]).value]
    IN SortByNumber(Collect(results, checkCount))

\* detectAvailableVans without the memo test: every call starts a pass
DetectAlways ==
    /\ passCount < MaxPasses
    /\ passes' = passes \cup
         {[pid |-> passCount + 1, outcome |-> [i \in 1..checkCount |-> "pending"]]}
    /\ passCount' = passCount + 1
    /\ headCalls' = headCalls + checkCount
    /\ UNCHANGED <<availableVans, vansDetected, lastResult>>
    /\ UNCHANGED vanVars

\* detectAvailableVans that answers from the memo as soon as a pass is in flight
DetectJoinsInFlight ==
    /\ IF vansDetected \/ passes # {}
       THEN /\ lastResult' = [op |-> "detectAvailableVans", arg |-> "",
                              status |-> "resolved", value |-> availableVans]
            /\ UNCHANGED <<passes, passCount, headCalls>>
       ELSE /\ passCount < MaxPasses
            /\ passes' = passes \cup
                 {[pid |-> passCount + 1,
                   outcome |-> [i \in 1..checkCount |-> "pending"]]}
            /\ passCount' = passCount + 1
            /\ headCalls' = headCalls + checkCount
            /\ UNCHANGED lastResult
    /\ UNCHANGED <<availableVans, vansDetected>>
    /\ UNCHANGED vanVars

\* detectAvailableVans(), up to its await: the memo, or all checks issued
DetectAvailableVans ==
    /\ IF vansDetected
       THEN /\ lastResult' = [op |-> "detectAvailableVans", arg |-> "",
                              status |-> "resolved", value |-> availableVans]
            /\ UNCHANGED <<passes, passCount, headCalls>>
       ELSE /\ passCount < MaxPasses
            /\ passes' = passes \cup
                 {[pid |-> passCount + 1,
                   outcome |-> [i \in 1..checkCount |-> "pending"]]}
            /\ passCount' = passCount + 1
            /\ headCalls' = headCalls + checkCount
            /\ UNCHANGED lastResult
    /\ UNCHANGED <<availableVans, vansDetected>>
    /\ UNCHANGED vanVars

\* one existence check of a pass settles: ok, not ok, or a rejected fetch
CheckSettle(p, i, o) ==
    /\ p.outcome[i] = "pending"
    /\ passes' = (passes \ {p}) \cup {[p EXCEPT !.outcome[i] = o]}
    /\ UNCHANGED <<availableVans, vansDetected, passCount, headCalls, lastResult>>
    /\ UNCHANGED vanVars

\* the checks of a pass whose promise is rejected
Rejected(p) ==
    {i \in 1..checkCount :
        p.outcome[i] # "pending" /\ CheckPromise(i, p.outcome[i]).state = "rejected"}

\* detectAvailableVans after Promise.all settled: it rejects with the first
\* rejected check promise, and resolves when all are fulfilled: filter, sort, memoize
DetectFinish(p) ==
    /\ IF Rejected(p) # {}
       THEN /\ lastResult' = [op |-> "detectAvailableVans", arg |-> "",
                              checks |-> p.outcome, status |-> "rejected"]
            /\ UNCHANGED <<availableVans, vansDetected>>
       ELSE /\ \A i \in 1..checkCount : p.outcome[i] # "pending"
            /\ availableVans' = DetectedVans(p.outcome)
            /\ vansDetected' = TRUE
            /\ lastResult' = [op |-> "detectAvailableVans", arg |-> "",
                              checks |-> p.outcome, status |-> "resolved",
                              value |-> DetectedVans(p.outcome)]
    /\ passes' = passes \ {p}
    /\ UNCHANGED <<passCount, headCalls>>
    /\ UNCHANGED vanVars

\* getAvailableVans(): the detected vehicles if available, else the config list
getAvailableVansDetectedFirst(detected, detectedVans) ==
    IF detected THEN detectedVans ELSE staticList

getAvailableVans(detected, detectedVans) ==
    IF detected /\ Len(detectedVans) > 0 THEN detectedVans ELSE staticList

\* a caller reads the list of vehicles
GetAvailableVans ==
    /\ lastResult' = [op |-> "getAvailableVans", arg |-> "", status |-> "resolved",
                      value |-> getAvailableVans(vansDetected, availableVans)]
    /\ UNCHANGED probeVars
    /\ UNCHANGED vanVars

Next ==
    \/ \E id \in VanIds : LoadVan(id) /\ UNCHANGED otherVars
    \/ \E r \in requests : LoadVanResolve(r) /\ UNCHANGED otherVars
    \/ \E r \in requests : LoadVanReject(r) /\ UNCHANGED otherVars
    \/ \E n \in 1..MaxVan : LoadVanByNumber(n) /\ UNCHANGED otherVars
    \/ \E r \in requests : LoadVanByNumberResolve(r) /\ UNCHANGED otherVars
    \/ \E r \in requests : LoadVanByNumberReject(r) /\ UNCHANGED otherVars
    \/ \E id \in VanIds : SwitchToVan(id) /\ UNCHANGED otherVars
    \/ DetectAvailableVans /\ passCount' <= MaxStartupPasses /\ UNCHANGED otherVars
    \/ \E p \in passes : \E i \in 1..checkCount :
          \E o \in {"ok", "notok", "error"} : CheckSettle(p, i, o) /\ UNCHANGED otherVars
    \/ \E p \in passes : DetectFinish(p) /\ UNCHANGED otherVars

\* the whole manager: vehicle requests and the probe
Spec == Init /\ [][Next]_vars

NextProbe ==
    \/ DetectAvailableVans /\ UNCHANGED otherVars
    \/ \E p \in passes : \E i \in 1..checkCount :
          \E o \in {"ok", "notok", "error"} : CheckSettle(p, i, o) /\ UNCHANGED otherVars
    \/ \E p \in passes : DetectFinish(p) /\ UNCHANGED otherVars

\* the prober alone: no vehicle is requested
SpecProbe == Init /\ [][NextProbe]_vars

\* ----------------------------------------------------------------- dispose
\* dispose(): this.vans.clear(); the loader's decoder is released, which is not
\* part of the state
Dispose ==
    /\ vans' = <<>>
    /\ disposed' = TRUE
    /\ UNCHANGED <<nodes, currentVan, currentVanId, requests, loaderCalls, loaderOk,
                   overlapped, lastResult>>
    /\ UNCHANGED probeVars
    /\ UNCHANGED <<wheelVars, uiVars, batch, preloads, pureVars, appVars>>

NextLife ==
    \/ Next
    \/ Dispose

\* the manager from construction to teardown and after
SpecLife == Init /\ [][NextLife]_vars

\* ---------------------------------------------------------------- the UI
\* JavaScript's %: the remainder has the sign of the dividend
JsRem(a, b) == IF a >= 0 THEN a % b ELSE 0 - ((0 - a) % b)

\* vans.findIndex(v => v.id === id): a 0-based index, or -1
findIndex(list, id) ==
    LET hits == {i \in 1..Len(list) : list[i].id = id}
    IN IF hits = {} THEN 0 - 1
       ELSE (CHOOSE i \in hits : \A j \in hits : i <= j) - 1

\* getCurrentVanInfo(): the cache entry of the current id; null and undefined
\* are both <<>>
getCurrentVanInfo ==
    IF currentVanId = null THEN <<>>
    ELSE IF Has(vans, currentVanId) THEN <<vans[currentVanId]>> ELSE <<>>

\* a step to the next index that stops at the end of the list
NextIndexNoWrap(currentIndex, length) ==
    IF currentIndex + 1 < length THEN currentIndex + 1 ELSE currentIndex

\* const nextIndex = (currentIndex + 1) % vans.length
NextIndex(currentIndex, length) == JsRem(currentIndex + 1, length)

\* a step to the previous index without the added length
PrevIndexNoLength(currentIndex, length) == JsRem(currentIndex - 1, length)

\* const prevIndex = (currentIndex - 1 + vans.length) % vans.length
PrevIndex(currentIndex, length) == JsRem(currentIndex - 1 + length, length)

\* the id switchToNextVan / switchToPreviousVan hands to onVanSelect: <<>> when
\* the list is empty, the first entry when no vehicle is current
CycleTarget(list, info, direction) ==
    LET currentIndex == findIndex(list, info[1].config.id)
    IN IF Len(list) = 0 THEN <<>>
       ELSE IF info = <<>> THEN <<list[1].id>>
       ELSE IF direction = "next"
       THEN <<list[NextIndex(currentIndex, Len(list)) + 1].id>>
       ELSE <<list[PrevIndex(currentIndex, Len(list)) + 1].id>>

\* the items with class active after onVanSelect marked vanId
MarkActive(items, vanId) ==
    {items[i] : i \in {j \in 1..Len(items) : items[j] = vanId}}

\* populateVanList(): one item per available vehicle, none active
PopulateVanList ==
    /\ vanList' = [i \in 1..Len(getAvailableVans(vansDetected, availableVans)) |->
                     getAvailableVans(vansDetected, availableVans)[i].id]
    /\ activeItems' = {}
    /\ UNCHANGED <<smallLoader, modelInfo, selections, selected>>
    /\ UNCHANGED <<vanVars, probeVars, lastResult>>
    /\ UNCHANGED <<disposed, wheelVars, batch, preloads, pureVars, appVars>>

\* onVanSelect(vanId), up to where it waits for the loader: a cached vehicle and
\* an unknown id are answered in the same step, and the hidden loader then ends
\* the call; showError is an alert and leaves the page as it is
OnVanSelect(vanId) ==
    /\ LoadVan(vanId)
    /\ IF Has(vans, vanId)
       THEN /\ activeItems' = MarkActive(vanList, vanId)
            /\ modelInfo' = vans[vanId].config.name
            /\ smallLoader' = "none"
            /\ selected' = TRUE
            /\ UNCHANGED selections
       ELSE IF ResolveConfig(vanId, availableVans) = <<>>
       THEN /\ smallLoader' = "none"
            /\ UNCHANGED <<activeItems, modelInfo, selections, selected>>
       ELSE /\ smallLoader' = "block"
            /\ selections' = selections \cup {TotalLoads + 1}
            /\ UNCHANGED <<activeItems, modelInfo, selected>>
    /\ UNCHANGED vanList
    /\ UNCHANGED <<disposed, wheelVars, batch, preloads, pureVars, appVars>>

\* onVanSelect after loadVan resolved: mark the item, show the info, hide the loader
OnVanSelectResolve(r) ==
    /\ r.rid \in selections
    /\ LoadVanResolve(r)
    /\ activeItems' = MarkActive(vanList, r.id)
    /\ modelInfo' = r.config.name
    /\ smallLoader' = "none"
    /\ selections' = selections \ {r.rid}
    /\ selected' = TRUE
    /\ UNCHANGED vanList
    /\ UNCHANGED <<disposed, wheelVars, batch, preloads, pureVars, appVars>>

\* onVanSelect after loadVan rejected: the catch block
OnVanSelectReject(r) ==
    /\ r.rid \in selections
    /\ LoadVanReject(r)
    /\ smallLoader' = "none"
    /\ selections' = selections \ {r.rid}
    /\ UNCHANGED <<vanList, activeItems, modelInfo, selected>>
    /\ UNCHANGED <<disposed, wheelVars, batch, preloads, pureVars, appVars>>

\* switchToNextVan()
SwitchToNextVan ==
    LET target == CycleTarget(getAvailableVans(vansDetected, availableVans),
                              getCurrentVanInfo, "next")
    IN IF target = <<>> THEN UNCHANGED vars ELSE OnVanSelect(target[1])

\* switchToPreviousVan()
SwitchToPreviousVan ==
    LET target == CycleTarget(getAvailableVans(vansDetected, availableVans),
                              getCurrentVanInfo, "previous")
    IN IF target = <<>> THEN UNCHANGED vars ELSE OnVanSelect(target[1])

\* what a step shows of onVanSelect(id): a new pending load of the id, or the
\* answer of loadVan(id) with, for a cached id, that id made the current one
Requested(id) ==
    IF requests' # requests
    THEN \E r \in requests' \ requests : r.op = "loadVan" /\ r.id = id
    ELSE /\ lastResult'.op = "loadVan" /\ lastResult'.arg = id
         /\ lastResult'.status = "resolved" => currentVanId' = id

NextUI ==
    \/ SwitchToNextVan
    \/ SwitchToPreviousVan
    \/ \E i \in 1..Len(vanList) : OnVanSelect(vanList[i])
    \/ \E r \in requests : OnVanSelectResolve(r)
    \/ \E r \in requests : OnVanSelectReject(r)
    \/ vansDetected /\ PopulateVanList
    \/ DetectAvailableVans /\ passCount' <= MaxStartupPasses /\ UNCHANGED otherVars
    \/ \E p \in passes : \E i \in 1..checkCount :
          \E o \in {"ok", "notok", "error"} : CheckSettle(p, i, o) /\ UNCHANGED otherVars
    \/ \E p \in passes : DetectFinish(p) /\ UNCHANGED otherVars

\* the page: the arrows, the list items, the probe behind them
SpecUI == Init /\ [][NextUI]_vars

NextList ==
    \/ GetAvailableVans /\ UNCHANGED otherVars
    \/ DetectAvailableVans /\ UNCHANGED otherVars
    \/ \E p \in passes : \E i \in 1..checkCount :
          \E o \in {"ok", "notok", "error"} : CheckSettle(p, i, o) /\ UNCHANGED otherVars
    \/ \E p \in passes : DetectFinish(p) /\ UNCHANGED otherVars

\* the reader of the vehicle list next to the prober
SpecList == Init /\ [][NextList]_vars

\* -------------------------------------------------- getAvailableVansAsync
\* Array.from(allVans.values()): a Map keeps the position of a key that is set
\* again and takes the new value; new keys are appended
MergeById(configVans, detected) ==
    [i \in 1..Len(configVans) |->
        IF FindById(detected, configVans[i].id) # <<>>
        THEN detected[findIndex(detected, configVans[i].id) + 1]
        ELSE configVans[i]]
    \o SelectSeq(detected, LAMBDA van : FindById(configVans, van.id) = <<>>)

\* getAvailableVansAsync(), up to its await: with the memo set it merges at
\* once, otherwise it calls detectAvailableVans, which starts a pass
GetAvailableVansAsync ==
    /\ IF vansDetected
       THEN /\ lastResult' = [op |-> "getAvailableVansAsync", arg |-> "",
                              status |-> "resolved",
                              value |-> MergeById(staticList, availableVans)]
            /\ UNCHANGED <<passes, passCount, headCalls>>
       ELSE /\ passCount < MaxPasses
            /\ passes' = passes \cup
                 {[pid |-> passCount + 1,
                   outcome |-> [i \in 1..checkCount |-> "pending"],
                   caller |-> "getAvailableVansAsync"]}
            /\ passCount' = passCount + 1
            /\ headCalls' = headCalls + checkCount
            /\ UNCHANGED lastResult
    /\ UNCHANGED <<availableVans, vansDetected>>
    /\ UNCHANGED vanVars

\* the pass getAvailableVansAsync awaits finishes: detectAvailableVans memoizes
\* its list, then the caller merges the static list with this.availableVans
GetAvailableVansAsyncFinish(p) ==
    /\ "caller" \in DOMAIN p
    /\ \A i \in 1..checkCount : p.outcome[i] # "pending"
    /\ availableVans' = DetectedVans(p.outcome)
    /\ vansDetected' = TRUE
    /\ lastResult' = [op |-> "getAvailableVansAsync", arg |-> "",
                      checks |-> p.outcome, status |-> "resolved",
                      value |-> MergeById(staticList, DetectedVans(p.outcome))]
    /\ passes' = passes \ {p}
    /\ UNCHANGED <<passCount, headCalls>>
    /\ UNCHANGED vanVars

NextAsync ==
    \/ DetectAvailableVans /\ UNCHANGED otherVars
    \/ GetAvailableVansAsync /\ UNCHANGED otherVars
    \/ \E p \in passes : \E i \in 1..checkCount : \E o \in {"ok", "notok", "error"} :
          CheckSettle(p, i, o) /\ UNCHANGED otherVars
    \/ \E p \in passes : "caller" \notin DOMAIN p /\ DetectFinish(p) /\ UNCHANGED otherVars
    \/ \E p \in passes : GetAvailableVansAsyncFinish(p) /\ UNCHANGED otherVars

\* the two entry points of the prober, called at any time
SpecAsync == Init /\ [][NextAsync]_vars

\* ------------------------------------------------------------- loadModels
\* all sequences over S of length at most n
RECURSIVE SeqsUpTo(_, _)
SeqsUpTo(S, n) ==
    IF n = 0 THEN {<<>>}
    ELSE LET shorter == SeqsUpTo(S, n - 1)
         IN shorter \cup {Append(q, x) : q \in {t \in shorter : Len(t) = n - 1}, x \in S}

\* the configurations a caller may hand to loadModels
ModelConfigs == {[path |-> basePath \o getFilename(n)] : n \in 1..MaxVan}

\* what loadModel(config.path, config.options) resolves with
ModelResult(config) == [model |-> config.path, animations |-> <<>>]

\* a collector that keeps the results in the order of completion
PromiseAllByCompletion(configs, order) ==
    [k \in 1..Len(order) |-> ModelResult(configs[order[k]])]

\* Promise.all(promises): the results in the order of the promises
PromiseAll(configs, order) ==
    [i \in 1..Len(configs) |-> ModelResult(configs[i])]

\* loadModels(modelConfigs): every loadModel is started, then Promise.all awaited
LoadModels(modelConfigs) ==
    /\ batch = NoBatch
    /\ batch' = IF Len(modelConfigs) = 0
                THEN [status |-> "resolved", configs |-> modelConfigs,
                      outcome |-> <<>>, order |-> <<>>,
                      value |-> PromiseAll(modelConfigs, <<>>)]
                ELSE [status |-> "pending", configs |-> modelConfigs,
                      outcome |-> [i \in 1..Len(modelConfigs) |-> "pending"],
                      order |-> <<>>]
    /\ UNCHANGED <<vanVars, probeVars, lastResult>>
    /\ UNCHANGED <<disposed, wheelVars, uiVars, preloads, pureVars, appVars>>

\* one loadModel of the batch settles. Promise.all rejects with the first
\* rejection (the catch block rethrows it) and resolves once all are fulfilled;
\* a load that settles after the rejection changes nothing for the caller.
ModelSettle(i, o) ==
    LET outcome == [batch.outcome EXCEPT ![i] = o]
        order == Append(batch.order, i)
        settled == [batch EXCEPT !.outcome = outcome, !.order = order]
    IN /\ batch.status \in {"pending", "rejected"}
       /\ batch.outcome[i] = "pending"
       /\ batch' =
            IF batch.status = "rejected" THEN settled
            ELSE IF o = "failed"
            THEN [status |-> "rejected", configs |-> batch.configs,
                  outcome |-> outcome, order |-> order, error |-> i]
            ELSE IF \A j \in 1..Len(outcome) : outcome[j] = "ok"
            THEN [status |-> "resolved", configs |-> batch.configs,
                  outcome |-> outcome, order |-> order,
                  value |-> PromiseAll(batch.configs, order)]
            ELSE settled
       /\ UNCHANGED <<vanVars, probeVars, lastResult>>
       /\ UNCHANGED <<disposed, wheelVars, uiVars, preloads, pureVars, appVars>>

NextBatch ==
    \/ \E modelConfigs \in SeqsUpTo(ModelConfigs, MaxBatch) : LoadModels(modelConfigs)
    \/ \E i \in 1..MaxBatch : \E o \in {"ok", "failed"} :
          batch # NoBatch /\ i \in DOMAIN batch.outcome /\ ModelSettle(i, o)

\* one loadModels call and the loads it started
SpecBatch == Init /\ [][NextBatch]_vars

\* --------------------------------------------------------- preloadAllVans
\* loadVan(truck.id).catch(err => null) once it settled, as Promise.allSettled
\* reports it, for a promise that is left to reject
PreloadItemNoCatch(outcome, entry) ==
    [status |-> IF outcome = "failed" THEN "rejected" ELSE "fulfilled",
     value |-> IF outcome = "failed" THEN <<>> ELSE <<entry>>]

\* loadVan(truck.id).catch(err => null) once it settled, as Promise.allSettled
\* reports it; the value is <<>> for null and <<entry>> for a cache entry
PreloadItem(outcome, entry) ==
    [status |-> "fulfilled", value |-> IF outcome = "failed" THEN <<>> ELSE <<entry>>]

\* Promise.allSettled(promises) resolves in the step in which the last of the
\* promises settles: the call is then kept, with the ids cached at that moment,
\* as the preload that settled last
SettleIfDone(p, cache) ==
    IF p.state = "pending" /\ \A i \in 1..Len(p.items) : p.items[i].outcome # "pending"
    THEN [p EXCEPT !.pid = 0, !.state = "settled", !.after = cache]
    ELSE p

\* the preload calls after one step: a call that settles replaces the one that
\* had settled before
KeepLatest(ps) ==
    IF \E p \in ps : p.pid > 0 /\ SettleIfDone(p, {}).pid = 0
    THEN {p \in ps : p.state = "pending"}
    ELSE ps

AfterStep(ps, cache) == {SettleIfDone(p, cache) : p \in KeepLatest(ps)}

\* preloadAllVans(), up to its await: loadVan for every entry of the static
\* list, which has one entry; a cached vehicle is answered at once
PreloadAllVans ==
    LET truck == staticList[1]
        pending == {p \in preloads : p.state = "pending"}
        pid == CHOOSE k \in 1..MaxPreloads : \A p \in pending : p.pid # k
    IN /\ Len(staticList) = 1
       /\ Cardinality(pending) < MaxPreloads
       /\ LoadVan(truck.id)
       /\ preloads' = AfterStep(preloads \cup
            {[pid |-> pid, state |-> "pending", before |-> DOMAIN vans,
              others |-> {}, after |-> {},
              items |-> << IF Has(vans, truck.id)
                           THEN [rid |-> 0, outcome |-> "cached",
                                 result |-> PreloadItem("cached", vans[truck.id])]
                           ELSE [rid |-> TotalLoads + 1, outcome |-> "pending"] >>]},
            DOMAIN vans)
       /\ UNCHANGED <<disposed, wheelVars, uiVars, batch, pureVars, appVars>>

\* what a load that settled means to a pending preload: the result of one of
\* its own loads, or an id another request has stored meanwhile
NoteSettle(p, r, outcome, entry) ==
    IF p.state # "pending" THEN p
    ELSE IF \E i \in 1..Len(p.items) : p.items[i].rid = r.rid
    THEN [p EXCEPT !.items =
            [i \in 1..Len(p.items) |->
                IF p.items[i].rid = r.rid
                THEN [rid |-> r.rid, outcome |-> outcome,
                      result |-> PreloadItem(outcome, entry)]
                ELSE p.items[i]]]
    ELSE IF outcome = "ok" THEN [p EXCEPT !.others = @ \cup {r.id}] ELSE p

\* a vehicle load settles while preloads may be waiting for it
PreloadNote(r, outcome) ==
    /\ preloads' = AfterStep({NoteSettle(p, r, outcome,
                                         IF outcome = "ok" THEN vans'[r.id] ELSE null)
                                : p \in preloads},
                             DOMAIN vans')
    /\ UNCHANGED <<disposed, wheelVars, uiVars, batch, pureVars, appVars>>

NextPreload ==
    \/ PreloadAllVans
    \/ \E r \in requests : LoadVanResolve(r) /\ PreloadNote(r, "ok")
    \/ \E r \in requests : LoadVanReject(r) /\ PreloadNote(r, "failed")
    \/ \E id \in VanIds : LoadVan(id) /\ UNCHANGED otherVars
    \/ \E n \in 1..MaxVan : LoadVanByNumber(n) /\ UNCHANGED otherVars
    \/ \E r \in requests : LoadVanByNumberResolve(r) /\ PreloadNote(r, "ok")
    \/ \E r \in requests : LoadVanByNumberReject(r) /\ PreloadNote(r, "failed")

\* preloading next to the other vehicle requests
SpecPreload == Init /\ [][NextPreload]_vars

\* ------------------------------------------------------------- the wheels
\* a wheel preload that, once loaded, fits wheels to the vehicles loaded before
LoadWheelModelResolveRefits ==
    /\ wheelPending
    /\ wheelPending' = FALSE
    /\ wheelModel' = "wheel.glb"
    /\ nodes' = [n \in 1..Len(nodes) |-> attachWheelsToVan(nodes[n], "wheel.glb")]
    /\ UNCHANGED <<vans, currentVan, currentVanId, requests, loaderCalls, loaderOk,
                   overlapped>>
    /\ UNCHANGED <<probeVars, lastResult>>
    /\ UNCHANGED <<disposed, uiVars, batch, preloads, pureVars, appVars>>

\* loadWheelModel after its loadModel resolved
LoadWheelModelResolve ==
    /\ wheelPending
    /\ wheelPending' = FALSE
    /\ wheelModel' = "wheel.glb"
    /\ UNCHANGED <<vanVars, probeVars, lastResult>>
    /\ UNCHANGED <<disposed, uiVars, batch, preloads, pureVars, appVars>>

\* loadWheelModel after its loadModel rejected: the catch block
LoadWheelModelReject ==
    /\ wheelPending
    /\ wheelPending' = FALSE
    /\ wheelModel' = null
    /\ UNCHANGED <<vanVars, probeVars, lastResult>>
    /\ UNCHANGED <<disposed, uiVars, batch, preloads, pureVars, appVars>>

NextWheels ==
    \/ LoadWheelModelResolve
    \/ LoadWheelModelReject
    \/ \E i \in 1..Len(staticList) : LoadVan(staticList[i].id) /\ UNCHANGED otherVars
    \/ \E r \in requests : LoadVanResolve(r) /\ UNCHANGED otherVars
    \/ \E r \in requests : LoadVanReject(r) /\ UNCHANGED otherVars
    \/ \E n \in 1..MaxVan : LoadVanByNumber(n) /\ UNCHANGED otherVars
    \/ \E r \in requests : LoadVanByNumberResolve(r) /\ UNCHANGED otherVars
    \/ \E r \in requests : LoadVanByNumberReject(r) /\ UNCHANGED otherVars

\* the vehicle requests next to the wheel preload the constructor started
SpecWheels == Init /\ [][NextWheels]_vars

\* ------------------------------------------------------- decoded graphs
\* a mesh the decoder produced without a geometry
meshWithoutGeometry ==
    [name |-> "body", position |-> <<0, 0, 0>>, rotation |-> <<0, 0, 0>>, scale |-> 100,
     isMesh |-> TRUE, geometry |-> <<>>]

\* a mesh whose primitive has indices and no POSITION accessor
meshWithoutPosition ==
    [name |-> "body", position |-> <<0, 0, 0>>, rotation |-> <<0, 0, 0>>, scale |-> 100,
     isMesh |-> TRUE, geometry |-> <<[index |-> <<36>>, position |-> <<>>]>>]

\* the graphs a successful transfer and decode may hand to a vehicle request
Scenes ==
    {Graph(getVanId(1)), Graph(getVanId(2)),
     <<meshWithoutGeometry, GraphNode("FL", 1, 2)>>,
     <<GraphNode("body", 0, 0), meshWithoutPosition>>}

NextDecode ==
    \/ LoadWheelModelResolve
    \/ LoadWheelModelReject
    \/ \E i \in 1..Len(staticList) : LoadVan(staticList[i].id) /\ UNCHANGED otherVars
    \/ \E r \in requests : \E scene \in Scenes :
          LoadVanDecoded(r, scene) /\ UNCHANGED otherVars
    \/ \E r \in requests : LoadVanReject(r) /\ UNCHANGED otherVars
    \/ \E n \in 1..MaxVan : LoadVanByNumber(n) /\ UNCHANGED otherVars
    \/ \E r \in requests : \E scene \in Scenes :
          LoadVanByNumberDecoded(r, scene) /\ UNCHANGED otherVars
    \/ \E r \in requests : LoadVanByNumberReject(r) /\ UNCHANGED otherVars

\* the vehicle requests over files of any decodable content
SpecDecode == Init /\ [][NextDecode]_vars

\* the graphs attachWheelsToVan is applied to on its own: up to MaxGraph nodes,
\* any of them named as a mount point, each with a transform of its own
GraphNames == wheelPositions \cup {"body"}

Graphs ==
    {[k \in 1..Len(names) |->
        [name |-> names[k], position |-> <<k, 0, 0 - k>>, rotation |-> <<0, k, 0>>,
         scale |-> 100 + k]] : names \in SeqsUpTo(GraphNames, MaxGraph)}

InitAttach ==
    /\ InitManager
    /\ InitStandalone
    /\ call \in {[fn |-> "attachWheelsToVan",
                   vanModel |-> [NewNode(getVanId(1), defaultScale, defaultPosition,
                                         <<0, 1, 0>>) EXCEPT !.graph = g],
                   wheel |-> w] : g \in Graphs, w \in {null, "wheel.glb"}}
    /\ ret = NoCall

\* attachWheelsToVan(vanModel) with this.wheelModel as drawn
AttachWheelsToVan ==
    /\ ret = NoCall
    /\ ret' = [fn |-> "attachWheelsToVan",
               vanModel |-> attachWheelsToVan(call.vanModel, call.wheel)]
    /\ UNCHANGED <<vanVars, probeVars, lastResult, call>>
    /\ UNCHANGED <<disposed, wheelVars, uiVars, batch, preloads, appVars>>

\* attachWheelsToVan applied to one vehicle graph
SpecAttach == InitAttach /\ [][AttachWheelsToVan]_vars

\* ------------------------------------------- getModelInfo on its own
\* the attribute counts of the geometries getModelInfo is applied to
MeshCounts == {0, 1, 4, 300}

\* an absent value, or one of S
Optional(S) == {<<>>} \cup {<<x>> : x \in S}

\* the nodes of a model: no mesh, a mesh without geometry, a mesh whose
\* geometry is indexed or not and has a position attribute or not
Children ==
    {[isMesh |-> FALSE, geometry |-> <<>>]} \cup
    {[isMesh |-> TRUE, geometry |-> g] :
        g \in Optional([index : Optional(MeshCounts), position : Optional(MeshCounts)])}

InitInfo ==
    /\ InitManager
    /\ InitStandalone
    /\ call \in {[fn |-> "getModelInfo", model |-> m] : m \in SeqsUpTo(Children, MaxMeshes)}
    /\ ret = NoCall

\* getModelInfo(model)
GetModelInfo ==
    /\ ret = NoCall
    /\ ret' = [fn |-> "getModelInfo", info |-> getModelInfo(call.model)]
    /\ UNCHANGED <<vanVars, probeVars, lastResult, call>>
    /\ UNCHANGED <<disposed, wheelVars, uiVars, batch, preloads, appVars>>

\* getModelInfo applied to one model
SpecInfo == InitInfo /\ [][GetModelInfo]_vars

\* ------------------------------------------------------ the application
\* animate(), called with isRunning = running while the frame requests in
\* `pending` are outstanding: when running it requests the next frame and
\* renders, otherwise it returns at once
Animate(running, pending) ==
    IF running
    THEN /\ animationId' = frameCount + 1
         /\ frames' = pending \cup {frameCount + 1}
         /\ frameCount' = frameCount + 1
         /\ rendered' = rendered + 1
    ELSE /\ frames' = pending
         /\ UNCHANGED <<animationId, frameCount, rendered>>

\* pause() that leaves the requested frame pending
PauseNoCancel ==
    /\ isRunning' = FALSE
    /\ UNCHANGED <<animationId, frames, frameCount, rendered>>

\* pause(): clear isRunning, cancel the frame animationId names
Pause ==
    /\ isRunning' = FALSE
    /\ IF animationId # 0
       THEN /\ frames' = frames \ {animationId}
            /\ animationId' = 0
       ELSE UNCHANGED <<animationId, frames>>
    /\ UNCHANGED <<frameCount, rendered>>

\* start(): when not running, set isRunning and call animate()
Start ==
    IF isRunning
    THEN UNCHANGED loopVars
    ELSE /\ isRunning' = TRUE
         /\ Animate(TRUE, frames)

\* new GarageApp(): init runs up to `await this.vanManager.loadGarage()`, with
\* the loading screen shown and the manager constructed
InitApp ==
    /\ InitManager
    /\ call = NoCall
    /\ ret = NoCall
    /\ initPc = "loadGarage"
    /\ awaited = 0
    /\ garageModel = null
    /\ garageAdded = <<>>
    /\ garageResult = "pending"
    /\ loadingScreen = "flex"
    /\ InitLoop

\* loadGarage after the garage file was loaded and decoded to `scene`: the
\* model is added to the scene and measured; loadInitialContent then starts the
\* probe. When getModelInfo throws, the catch block of loadGarage adds the
\* placeholder and rethrows, the catch block of loadInitialContent hides the
\* loading screen, and init goes on to start().
LoadGarageDecoded(scene) ==
    \E info \in {getModelInfo(scene)} :
       /\ initPc = "loadGarage"
       /\ IF info.status = "returned"
          THEN /\ garageModel' = "model"
               /\ garageAdded' = Append(garageAdded, "model")
               /\ garageResult' = "resolved"
               /\ DetectAvailableVans
               /\ initPc' = IF vansDetected THEN "populate" ELSE "detect"
               /\ awaited' = IF vansDetected THEN 0 ELSE passCount + 1
               /\ UNCHANGED <<loadingScreen, loopVars>>
          ELSE /\ garageModel' = "placeholder"
               /\ garageAdded' = Append(Append(garageAdded, "model"), "placeholder")
               /\ garageResult' = "rejected"
               /\ loadingScreen' = "none"
               /\ Start
               /\ initPc' = "done"
               /\ UNCHANGED <<awaited, lastResult>>
               /\ UNCHANGED <<vanVars, probeVars>>
       /\ UNCHANGED <<disposed, wheelVars, uiVars, batch, preloads, pureVars>>

\* loadGarage after loadModel rejected: createPlaceholderGarage, rethrow; the
\* catch block of loadInitialContent; start()
LoadGarageReject ==
    /\ initPc = "loadGarage"
    /\ garageModel' = "placeholder"
    /\ garageAdded' = Append(garageAdded, "placeholder")
    /\ garageResult' = "rejected"
    /\ loadingScreen' = "none"
    /\ Start
    /\ initPc' = "done"
    /\ UNCHANGED <<awaited, lastResult>>
    /\ UNCHANGED <<vanVars, probeVars>>
    /\ UNCHANGED <<disposed, wheelVars, uiVars, batch, preloads, pureVars>>

\* the probe pass loadInitialContent awaits finishes; the continuation of
\* loadInitialContent is the next thing to run
StartupDetectFinish(p) ==
    /\ initPc = "detect"
    /\ p.pid = awaited
    /\ DetectFinish(p)
    /\ initPc' = "populate"
    /\ UNCHANGED <<awaited, garageModel, garageAdded, garageResult, loadingScreen,
                   loopVars>>
    /\ UNCHANGED <<disposed, wheelVars, uiVars, batch, preloads, pureVars>>

\* what init does once the first vehicle is current: updateModelInfo, the first
\* item with its id gets the class active, the loading screen goes, start()
ShowFirst(active, items, vanId, name) ==
    /\ modelInfo' = name
    /\ activeItems' = active \cup (IF \E i \in 1..Len(items) : items[i] = vanId
                                   THEN {vanId} ELSE {})
    /\ loadingScreen' = "none"
    /\ Start
    /\ initPc' = "done"

\* loadInitialContent after the probe: populateVanList, then loadVan for the
\* first available vehicle up to its await
StartupLoadFirst ==
    LET list == getAvailableVans(vansDetected, availableVans)
        items == [i \in 1..Len(list) |-> list[i].id]
    IN /\ initPc = "populate"
       /\ vanList' = items
       /\ IF Len(list) = 0
          THEN /\ loadingScreen' = "none"
               /\ Start
               /\ initPc' = "done"
               /\ activeItems' = {}
               /\ UNCHANGED <<awaited, modelInfo, lastResult>>
               /\ UNCHANGED <<vanVars, probeVars>>
          ELSE /\ LoadVan(list[1].id)
               /\ IF Has(vans, list[1].id)
                  THEN /\ ShowFirst({}, items, list[1].id, vans[list[1].id].config.name)
                       /\ UNCHANGED awaited
                  ELSE IF ResolveConfig(list[1].id, availableVans) = <<>>
                  THEN /\ loadingScreen' = "none"
                       /\ Start
                       /\ initPc' = "done"
                       /\ activeItems' = {}
                       /\ UNCHANGED <<awaited, modelInfo>>
                  ELSE /\ initPc' = "loadFirst"
                       /\ awaited' = TotalLoads + 1
                       /\ activeItems' = {}
                       /\ UNCHANGED <<modelInfo, loadingScreen, loopVars>>
       /\ UNCHANGED <<garageModel, garageAdded, garageResult, smallLoader, selections, selected>>
       /\ UNCHANGED <<disposed, wheelVars, batch, preloads, pureVars>>

\* loadInitialContent after the first vehicle was loaded
StartupFirstResolve(r) ==
    /\ initPc = "loadFirst"
    /\ r.rid = awaited
    /\ LoadVanResolve(r)
    /\ ShowFirst(activeItems, vanList, r.id, r.config.name)
    /\ UNCHANGED <<awaited, garageModel, garageAdded, garageResult>>
    /\ UNCHANGED <<smallLoader, vanList, selections, selected>>
    /\ UNCHANGED <<disposed, wheelVars, batch, preloads, pureVars>>

\* loadInitialContent after the first vehicle failed to load: its catch block
StartupFirstReject(r) ==
    /\ initPc = "loadFirst"
    /\ r.rid = awaited
    /\ LoadVanReject(r)
    /\ loadingScreen' = "none"
    /\ Start
    /\ initPc' = "done"
    /\ UNCHANGED <<awaited, garageModel, garageAdded, garageResult>>
    /\ UNCHANGED uiVars
    /\ UNCHANGED <<disposed, wheelVars, batch, preloads, pureVars>>

\* the page while the application starts and after: the continuation of
\* loadInitialContent runs before any other event is handled
NextApp ==
    \/ StartupLoadFirst
    \/ /\ initPc # "populate"
       /\ \/ \E scene \in Scenes : LoadGarageDecoded(scene)
          \/ LoadGarageReject
          \/ \E p \in passes : StartupDetectFinish(p)
          \/ \E r \in requests : StartupFirstResolve(r)
          \/ \E r \in requests : StartupFirstReject(r)
          \/ \E p \in passes : \E i \in 1..checkCount :
                \E o \in {"ok", "notok", "error"} :
                   CheckSettle(p, i, o) /\ UNCHANGED otherVars
          \/ SwitchToNextVan
          \/ SwitchToPreviousVan
          \/ \E i \in 1..Len(vanList) : OnVanSelect(vanList[i])
          \/ \E r \in requests : OnVanSelectResolve(r)
          \/ \E r \in requests : OnVanSelectReject(r)

\* the application from its construction on
SpecApp == InitApp /\ [][NextApp]_vars

\* the browser runs the pending animation-frame callback f: animate()
Frame(f) ==
    /\ f \in frames
    /\ Animate(isRunning, frames \ {f})
    /\ UNCHANGED isRunning
    /\ UNCHANGED <<initPc, awaited, garageModel, garageAdded, garageResult,
                   loadingScreen>>
    /\ UNCHANGED <<vanVars, probeVars, lastResult>>
    /\ UNCHANGED <<disposed, wheelVars, uiVars, batch, preloads, pureVars>>

\* the visibilitychange listener: pause() when the page is hidden, else start()
VisibilityChange(hidden) ==
    /\ IF hidden THEN Pause ELSE Start
    /\ UNCHANGED <<initPc, awaited, garageModel, garageAdded, garageResult,
                   loadingScreen>>
    /\ UNCHANGED <<vanVars, probeVars, lastResult>>
    /\ UNCHANGED <<disposed, wheelVars, uiVars, batch, preloads, pureVars>>

\* the application with its render loop: the listener is registered before
\* loadInitialContent, so the page can be hidden and shown while init waits
NextLoop ==
    \/ NextApp
    \/ /\ initPc # "populate"
       /\ \/ VisibilityChange(TRUE)
          \/ frameCount < MaxFrames /\ VisibilityChange(FALSE)
          \/ \E f \in frames : frameCount < MaxFrames /\ Frame(f)

SpecLoop == InitApp /\ [][NextLoop]_vars

\* ------------------------------------------------- one index of the probe
\* for (let i = 1; i <= checkCount; i++): the indices the loop visits
ProbedIndices(count) == {i \in 0..count + 1 : 1 <= i /\ i <= count}

InitNames ==
    /\ InitManager
    /\ InitStandalone
    /\ call \in {[fn |-> "check", i |-> i] : i \in ProbedIndices(checkCountInSource)}
    /\ ret = NoCall

\* the body of the loop for one index: the id, the filename, the path handed to
\* fetch, and the config an ok response produces
CheckIndex ==
    /\ ret = NoCall
    /\ ret' = [fn |-> "check",
               vanId |-> getVanId(call.i),
               filename |-> getFilename(call.i),
               vanPath |-> basePath \o getFilename(call.i),
               config |-> DetectedConfig(call.i)]
    /\ UNCHANGED <<vanVars, probeVars, lastResult, call>>
    /\ UNCHANGED <<disposed, wheelVars, uiVars, batch, preloads, appVars>>

\* the names the probe derives from one index
SpecNames == InitNames /\ [][CheckIndex]_vars

\* ================================================================ claims

\* C1: whenever control is back in the event loop, at most one vehicle scene
\* node is both attached to the scene and visible, for every sequence of
\* loadVan / loadVanByNumber / switchToVan calls and load completions.
C1_AtMostOneVisible == Cardinality(VisibleNodes(nodes)) <= 1

\* C1 witness: two vehicle nodes are attached, one of them is visible, and
\* loads have overlapped
C1_Witness ==
    /\ overlapped
    /\ Cardinality({n \in 1..Len(nodes) : nodes[n].parent = "scene"}) >= 2
    /\ Cardinality(VisibleNodes(nodes)) = 1

\* C2 as claimed: a loadVan for an id without cache entry and without config
\* fails with the not-found error and leaves the visible vehicle, currentVan
\* and currentVanId as they were.
C2_NotFoundKeepsVisibility ==
    [][\A id \in VanIds :
          (LoadVan(id) /\ id \notin DOMAIN vans
                       /\ FindById(staticList, id) = <<>>
                       /\ FindById(availableVans, id) = <<>>)
          => /\ lastResult'.status = "NotFound"
             /\ VisibleNodes(nodes') = VisibleNodes(nodes)
             /\ currentVan' = currentVan
             /\ currentVanId' = currentVanId]_vars

\* C3 as claimed: when the load of a loadVan request fails, the node that was
\* visible when the request was issued is visible again, the error reaches the
\* caller and the loader is not invoked again.
C3_FailureRestoresShown ==
    [][\A r \in requests :
          (r.op = "loadVan" /\ r \notin requests' /\ lastResult'.status = "LoadError")
          => /\ \A n \in r.shown : nodes'[n].visible
             /\ loaderCalls' = loaderCalls]_vars

\* C3 as amended: when the load of a loadVan request fails, the vehicle that
\* is current at that moment is visible again (it is the one that was visible
\* when the request was issued unless another request switched the current
\* vehicle in between), nothing else changes visibility, the error reaches the
\* caller and the loader is not invoked again.
C3_FailureRestoresCurrent ==
    [][\A r \in requests :
          (r.op = "loadVan" /\ r \notin requests' /\ lastResult'.status = "LoadError")
          => /\ currentVan # NoNode => nodes'[currentVan].visible
             /\ \A n \in r.shown : n = currentVan => nodes'[n].visible
             /\ \A n \in 1..Len(nodes) :
                   n # currentVan => nodes'[n].visible = nodes[n].visible
             /\ currentVan' = currentVan
             /\ lastResult'.arg = r.id
             /\ loaderCalls' = loaderCalls
             /\ \A q \in requests' : q \in requests]_vars

\* C3 witness: a loadVan load has just failed and the vehicle that its request
\* hid is current and visible again
C3_Witness ==
    /\ lastResult.op = "loadVan"
    /\ lastResult.status = "LoadError"
    /\ currentVan # NoNode
    /\ VisibleNodes(nodes) = {currentVan}
    /\ requests = {}
    /\ ~overlapped

\* C4 as claimed: when a loadVan(B) issued after loadVan(A) has completed first
\* and B is the visible, current vehicle, the later completion of A's load
\* stores A in the cache and leaves B visible and current.
C4_SupersededLoadKeepsNewer ==
    [][\A r \in requests :
          (/\ r.op = "loadVan"
           /\ r \notin requests'
           /\ loaderOk'[r.id] = loaderOk[r.id] + 1
           /\ lastResult.op = "loadVan"
           /\ lastResult.status = "resolved"
           /\ "rid" \in DOMAIN lastResult
           /\ lastResult.rid > r.rid
           /\ lastResult.arg # r.id
           /\ currentVanId = lastResult.arg
           /\ VisibleNodes(nodes) = {currentVan})
          => /\ r.id \in DOMAIN vans'
             /\ VisibleNodes(nodes') = VisibleNodes(nodes)
             /\ currentVan' = currentVan
             /\ currentVanId' = currentVanId]_vars

\* C5 as claimed: once a load has completed successfully and no request is in
\* flight, exactly one vehicle node is visible and it is the node of a vehicle
\* whose load completed successfully.
C5_ExactlyOneVisibleAtRest ==
    ((\E id \in VanIds : loaderOk[id] > 0) /\ requests = {})
    => /\ Cardinality(VisibleNodes(nodes)) = 1
       /\ \A n \in VisibleNodes(nodes) : loaderOk[nodes[n].van] > 0

\* C6 as claimed: the loader is invoked successfully at most once per id and
\* the cache entry stored for an id is never replaced: every node the loader
\* produced is the node of the entry stored under its id.
C6_EntryCreatedOnce ==
    /\ \A id \in VanIds : loaderOk[id] <= 1
    /\ \A n \in 1..Len(nodes) :
          nodes[n].van \in DOMAIN vans /\ vans[nodes[n].van].model = n

\* C7: a loadVan / loadVanByNumber for a cached id never invokes the loader
\* and returns the cached entry; when requests do not overlap (load A, load
\* B, request A again) the loader succeeds exactly once per cached id, the
\* entry and its node stay the same object, and no node's transform changes.
C7_CacheHitNoReload ==
    /\ [][\A id \in VanIds :
             id \in DOMAIN vans
             => /\ loaderCalls'[id] = loaderCalls[id]
                /\ ~overlapped' => (id \in DOMAIN vans' /\ vans'[id] = vans[id])]_vars
    /\ [][\A n \in 1..Len(nodes) :
             /\ nodes'[n].van = nodes[n].van
             /\ nodes'[n].scale = nodes[n].scale
             /\ nodes'[n].position = nodes[n].position
             /\ nodes'[n].rotation = nodes[n].rotation]_vars
    /\ [](~overlapped =>
            \A id \in VanIds :
               /\ loaderOk[id] <= 1
               /\ id \in DOMAIN vans => loaderOk[id] = 1)
    /\ []((lastResult.op \in {"loadVan", "loadVanByNumber"}
            /\ lastResult.status = "resolved")
          => /\ lastResult.arg \in DOMAIN vans
             /\ lastResult.value = vans[lastResult.arg]
             /\ currentVanId = lastResult.arg
             /\ currentVan = lastResult.value.model)

\* C7 witness: A was loaded, then B, then loadVan(A) was served from the cache:
\* node 1 is current again, node 2 is hidden, the loader ran once for A
C7_Witness ==
    /\ ~overlapped
    /\ Len(nodes) = 2
    /\ nodes[1].van # nodes[2].van
    /\ nodes[2].parent = "scene"
    /\ lastResult.op = "loadVan"
    /\ lastResult.status = "resolved"
    /\ "rid" \notin DOMAIN lastResult
    /\ lastResult.value.model = 1
    /\ VisibleNodes(nodes) = {1}
    /\ loaderCalls[nodes[1].van] = 1

\* C8: once a probe pass has completed, detectAvailableVans issues no further
\* existence check and returns the memoized list: the list it returns is the
\* list the completed pass returned.
C8_SecondProbeMemoized ==
    /\ [][vansDetected => headCalls' = headCalls]_vars
    /\ [][(vansDetected /\ passes' = passes)
          => /\ availableVans' = availableVans
             /\ lastResult'.op = "detectAvailableVans"
                => (lastResult'.status = "resolved"
                    /\ lastResult'.value = availableVans)]_vars
    /\ []((lastResult.op = "detectAvailableVans" /\ lastResult.status = "resolved")
          => (vansDetected /\ lastResult.value = availableVans))

\* C8 witness: a second call was answered from the memo, with every index
\* found, after one pass and checkCount existence checks
C8_Witness ==
    /\ vansDetected
    /\ passCount = 1
    /\ headCalls = checkCount
    /\ lastResult.op = "detectAvailableVans"
    /\ "checks" \notin DOMAIN lastResult
    /\ Len(lastResult.value) = checkCount

\* C9: a probe pass returns exactly the configs of the indices whose check
\* answered ok, each once, in strictly ascending index order, whatever the
\* outcomes and the order in which the checks settle; a pass issues all its
\* checks when it starts.
C9_ProbeResultSortedOk ==
    /\ headCalls = passCount * checkCount
    /\ \A p \in passes : DOMAIN p.outcome = 1..checkCount
    /\ (lastResult.op = "detectAvailableVans" /\ "checks" \in DOMAIN lastResult)
       => /\ lastResult.status = "resolved"
          /\ \A i \in 1..checkCount :
                Cardinality({k \in 1..Len(lastResult.value) :
                                lastResult.value[k].number = i})
                = IF lastResult.checks[i] = "ok" THEN 1 ELSE 0
          /\ \A k \in 1..Len(lastResult.value) :
                /\ lastResult.value[k].number \in 1..checkCount
                /\ lastResult.value[k].id = getVanId(lastResult.value[k].number)
          /\ \A k \in 1..Len(lastResult.value) - 1 :
                lastResult.value[k].number < lastResult.value[k + 1].number

\* C9 witness: a pass finished with every index found and the result holds
\* them all
C9_Witness ==
    /\ lastResult.op = "detectAvailableVans"
    /\ "checks" \in DOMAIN lastResult
    /\ \A i \in 1..checkCount : lastResult.checks[i] = "ok"
    /\ Len(lastResult.value) = checkCount
    /\ checkCount >= 2

\* C10: a check that errors has the same effect on the result as a check that
\* answers not-ok (its index is absent), and detectAvailableVans never
\* rejects; when no check answers ok the result is the empty list.
C10_ErrorIsNotFound ==
    lastResult.op = "detectAvailableVans"
    => /\ lastResult.status = "resolved"
       /\ "checks" \in DOMAIN lastResult
          => /\ lastResult.value =
                  DetectedVans([i \in 1..checkCount |->
                                  IF lastResult.checks[i] = "error" THEN "notok"
                                  ELSE lastResult.checks[i]])
             /\ \A i \in 1..checkCount :
                   lastResult.checks[i] = "error"
                   => \A k \in 1..Len(lastResult.value) :
                         lastResult.value[k].number # i
             /\ (\A i \in 1..checkCount : lastResult.checks[i] # "ok")
                => lastResult.value = <<>>

\* C10 witness: a pass finished although one of its checks errored, and
\* another index was found
C10_Witness ==
    /\ lastResult.op = "detectAvailableVans"
    /\ lastResult.status = "resolved"
    /\ "checks" \in DOMAIN lastResult
    /\ \E i \in 1..checkCount : lastResult.checks[i] = "error"
    /\ \E i \in 1..checkCount : lastResult.checks[i] = "ok"

\* C11 (as stated): getAvailableVans returns the probe's memoized result whenever
\* probing has completed, also when the probe found no vehicle, and the static
\* list only when probing has not completed.
C11_MemoWheneverProbed ==
    lastResult.op = "getAvailableVans" =>
        lastResult.value = IF vansDetected THEN availableVans ELSE staticList

\* C11 (amended): getAvailableVans returns the probe's memoized result when
\* probing has completed and found at least one vehicle, and the static list
\* when probing has not completed or found no vehicle; the call issues no
\* existence check and starts no probe pass.
C11_MemoWhenNonEmpty ==
    /\ [](lastResult.op = "getAvailableVans" =>
            /\ (vansDetected /\ availableVans # <<>>) =>
                    lastResult.value = availableVans
            /\ (~vansDetected \/ availableVans = <<>>) =>
                    lastResult.value = staticList)
    /\ [][(lastResult' # lastResult /\ lastResult'.op = "getAvailableVans") =>
            (headCalls' = headCalls /\ passes' = passes /\ passCount' = passCount)]_vars

C11_Witness ==
    /\ vansDetected
    /\ availableVans = <<>>
    /\ lastResult.op = "getAvailableVans"
    /\ lastResult.value = staticList

\* C13: a loadVan request that misses the cache takes its configuration from
\* the static list when the static list has an entry with that id, and from the
\* detected list only otherwise; when both lists have the id the static entry
\* is the one used, and the loader is given the path built from its filename.
C13_StaticConfigWins ==
    \A r \in requests : r.op = "loadVan" =>
        LET inStatic == {i \in 1..Len(staticList) : staticList[i].id = r.id}
            inDetected == {i \in 1..Len(availableVans) : availableVans[i].id = r.id}
        IN /\ inStatic # {} => \E i \in inStatic : r.config = staticList[i]
           /\ inStatic = {} => \E i \in inDetected : r.config = availableVans[i]
           /\ r.path = basePath \o r.config.filename

C13_Witness ==
    \E r \in requests :
        /\ r.op = "loadVan"
        /\ \E i \in 1..Len(availableVans) :
              availableVans[i].id = r.id /\ availableVans[i] # r.config
        /\ \E i \in 1..Len(staticList) : staticList[i] = r.config

\* C14: the step in which a cache-miss loadVan with a resolvable configuration
\* invokes the loader also hides the visible vehicle, so no vehicle is visible
\* when control returns; a step of the probe, the only activity that is not a
\* vehicle request, changes neither the visibility nor the pending loads, so the
\* vehicle stays hidden until the load settles unless another request acts.
C14_HiddenWhileLoading ==
    /\ [][\A r \in requests' \ requests : r.op = "loadVan" =>
            /\ VisibleNodes(nodes') = {}
            /\ loaderCalls'[r.id] = loaderCalls[r.id] + 1
            /\ r.shown = VisibleNodes(nodes)]_vars
    /\ [][(\/ probeVars' # probeVars
            \/ (lastResult' # lastResult /\ lastResult'.op = "detectAvailableVans"))
              => (nodes' = nodes /\ requests' = requests)]_vars

C14_Witness ==
    \E r \in requests :
        /\ r.op = "loadVan"
        /\ currentVan \in r.shown
        /\ ~nodes[currentVan].visible
        /\ requests = {r}

\* C15: before dispose the set of cached ids only grows; a load that fails
\* leaves the cache as it was; a loadVan or loadVanByNumber for an id that is
\* already cached leaves the cache and the loader alone and makes that id the
\* current one.
C15_CacheOnlyGrows ==
    [][~disposed' =>
        /\ DOMAIN vans \subseteq DOMAIN vans'
        /\ (\E r \in requests : LoadVanReject(r) \/ LoadVanByNumberReject(r))
              => vans' = vans
        /\ \A n \in 1..MaxVan :
              (Has(vans, getVanId(n)) /\ (LoadVan(getVanId(n)) \/ LoadVanByNumber(n)))
              => /\ vans' = vans
                 /\ loaderCalls' = loaderCalls
                 /\ requests' = requests
                 /\ currentVanId' = getVanId(n)]_vars

C15_Witness ==
    /\ ~disposed
    /\ lastResult.status = "LoadError"
    /\ lastResult.arg \notin DOMAIN vans
    /\ DOMAIN vans # {}
    /\ requests = {}

C16_BatchAllOrNothing ==
    batch # NoBatch =>
        LET failed == {i \in DOMAIN batch.outcome : batch.outcome[i] = "failed"}
            pending == {i \in DOMAIN batch.outcome : batch.outcome[i] = "pending"}
        IN /\ batch.status = "rejected" <=> failed # {}
           /\ batch.status = "rejected" =>
                 ("value" \notin DOMAIN batch /\ batch.error \in failed)
           /\ batch.status = "resolved" <=> (failed = {} /\ pending = {})
           /\ batch.status = "resolved" =>
                 /\ Len(batch.value) = Len(batch.configs)
                 /\ \A i \in 1..Len(batch.configs) :
                       batch.value[i].model = batch.configs[i].path

C16_Witness ==
    /\ batch.status = "resolved"
    /\ Len(batch.configs) = 3
    /\ batch.order = <<3, 1, 2>>
    /\ batch.configs[1].path # batch.configs[3].path

\* C17 (as stated): when preloadAllVans has settled, the cache holds exactly the
\* static ids whose load succeeded and the ids that were cached before the call.
C17_CacheExactlyPreloaded ==
    \A p \in preloads : p.state = "settled" =>
        p.after = p.before \cup
            {staticList[i].id : i \in {j \in 1..Len(staticList) :
                                          p.items[j].outcome # "failed"}}

\* C17 (amended): preloadAllVans never rejects; it is pending while one of its
\* loads is, and settled, with one fulfilled result per static vehicle, null
\* exactly for a load that failed, once they all have settled; the cache then
\* holds the ids cached before the call, the static ids whose load succeeded,
\* and the ids other requests stored while the preload was pending.
C17_PreloadNeverRejects ==
    \A p \in preloads :
        /\ p.state \in {"pending", "settled"}
        /\ Len(p.items) = Len(staticList)
        /\ p.state = "pending" =>
              \E i \in 1..Len(p.items) : \E r \in requests : p.items[i].rid = r.rid
        /\ p.state = "settled" =>
              /\ \A i \in 1..Len(p.items) :
                    /\ \A r \in requests : p.items[i].rid # r.rid
                    /\ p.items[i].result.status = "fulfilled"
                    /\ p.items[i].result.value = <<>> <=> p.items[i].outcome = "failed"
                    /\ p.items[i].outcome # "failed" => staticList[i].id \in p.after
              /\ p.after = p.before \cup p.others \cup
                    {staticList[i].id : i \in {j \in 1..Len(staticList) :
                                                  p.items[j].outcome # "failed"}}

C17_Witness ==
    \E p \in preloads :
        /\ p.state = "settled"
        /\ p.items[1].result.value = <<>>
        /\ p.after = {getVanId(2)}
        /\ p.before = {}

\* C18: with a wheel model available, attachWheelsToVan adds exactly one wheel
\* clone for every node of the graph named FL, FR, RL or RR, each clone with the
\* position, rotation and scale of its node; with no such node the child count
\* of the vehicle stays as it was, with four of them four clones are added.
C18_OneClonePerMount ==
    (ret # NoCall /\ call.wheel # null) =>
        LET graph == call.vanModel.graph
            mounts == {k \in 1..Len(graph) : graph[k].name \in {"FL", "FR", "RL", "RR"}}
            wheels == ret.vanModel.wheels
        IN /\ Len(wheels) = Cardinality(mounts)
           /\ \A k \in mounts : \E j \in 1..Len(wheels) :
                 /\ wheels[j].position = graph[k].position
                 /\ wheels[j].rotation = graph[k].rotation
                 /\ wheels[j].scale = graph[k].scale
                 /\ wheels[j].model = call.wheel
           /\ ret.vanModel.graph = graph
           /\ ChildCount(ret.vanModel) = ChildCount(call.vanModel) + Cardinality(mounts)
           /\ mounts = {} => ret.vanModel = call.vanModel

C18_Witness ==
    /\ ret # NoCall
    /\ call.wheel # null
    /\ Len(call.vanModel.graph) = 4
    /\ \A k \in 1..4 : call.vanModel.graph[k].name \in wheelPositions
    /\ ChildCount(ret.vanModel) = ChildCount(call.vanModel) + 4

C20_PolygonCountIsFloorOfSum ==
    LET model == call.model
        RECURSIVE Thirds(_)
        Thirds(k) ==
            IF k = 0 THEN 0
            ELSE Thirds(k - 1) +
                 (IF ~model[k].isMesh \/ model[k].geometry = <<>> THEN 0
                  ELSE IF model[k].geometry[1].index # <<>>
                  THEN model[k].geometry[1].index[1]
                  ELSE model[k].geometry[1].position[1])
    IN (ret # NoCall /\ ret.info.status = "returned") =>
          /\ ret.info.polygonCount = Thirds(Len(model)) \div 3
          /\ ret.info.polygonCount \in Nat
          /\ ret.info.vertexCount \in Nat

\* C21 as claimed: attachWheelsToVan and getModelInfo never raise, whatever the
\* decoded graph (a mesh without position attribute or without geometry
\* included): every vehicle load whose transfer and decode succeeded ends with
\* the vehicle stored in the cache and shown, never as a failed request.
C21_DecodedVehicleAlwaysShown ==
    [][\A r \in requests :
          (r \notin requests' /\ loaderOk'[r.id] = loaderOk[r.id] + 1)
          => /\ lastResult'.status = "resolved"
             /\ Has(vans', r.id)
             /\ VisibleNodes(nodes') = {vans'[r.id].model}]_vars

\* C22: scene.addObject is called at most once for each vehicle scene node: a
\* node is attached exactly when it has been added once, a step never detaches
\* an attached node nor adds it again (switching back to it only flips its
\* visible flag), and hiding a vehicle leaves it attached.
C22_AttachedOnce ==
    /\ [](\A n \in 1..Len(nodes) :
            /\ nodes[n].adds <= 1
            /\ nodes[n].adds = 1 <=> nodes[n].parent = "scene")
    /\ [][\A n \in 1..Len(nodes) :
            nodes[n].parent = "scene"
            => /\ nodes'[n].parent = "scene"
               /\ nodes'[n].adds = nodes[n].adds]_vars

\* C22 witness: vehicle A was shown, hidden by B, and shown again from the
\* cache: both nodes are attached and each was added once
C22_Witness ==
    /\ Len(nodes) = 2
    /\ nodes[1].adds = 1 /\ nodes[2].adds = 1
    /\ nodes[2].parent = "scene" /\ ~nodes[2].visible
    /\ nodes[1].visible
    /\ lastResult.status = "resolved"
    /\ "rid" \notin DOMAIN lastResult
    /\ lastResult.value.model = 1

C24_ProbeOnceBeforeFirstVan ==
    /\ initPc = "done" => (passCount = 1 /\ vansDetected)
    /\ TotalLoads > 0 => vansDetected

\* C25 as claimed: once loadGarage has settled exactly one garage node is
\* attached to the scene, the loaded model when it resolved and the placeholder
\* when it rejected; a rejection does not stop init, which goes on to start the
\* render loop.
C25_OneGarageNode ==
    garageResult # "pending" =>
        /\ Len(garageAdded) = 1
        /\ garageResult = "resolved" =>
              (garageAdded = <<"model">> /\ garageModel = "model")
        /\ garageResult = "rejected" =>
              (garageAdded = <<"placeholder">> /\ garageModel = "placeholder"
               /\ initPc = "done" /\ isRunning)

\* C26: before dispose, currentVanId and currentVan are both null, or
\* currentVanId is a cached id and currentVan is the node of the entry stored
\* under it; a step that changes one of them leaves them such a pair, and a
\* failed or not-found request changes neither.
C26_CurrentPairConsistent ==
    /\ [](~disposed =>
            \/ currentVanId = null /\ currentVan = NoNode
            \/ /\ currentVanId # null /\ currentVan # NoNode
               /\ Has(vans, currentVanId)
               /\ vans[currentVanId].model = currentVan)
    /\ [][(~disposed' /\ (currentVan' # currentVan \/ currentVanId' # currentVanId))
          => /\ Has(vans', currentVanId')
             /\ vans'[currentVanId'].model = currentVan'
             /\ lastResult'.status = "resolved"
             /\ lastResult'.arg = currentVanId']_vars
    /\ [][(/\ lastResult'.status \in {"LoadError", "NotFound", "NotLoaded"}
           /\ (lastResult' # lastResult \/ requests' # requests))
          => (currentVan' = currentVan /\ currentVanId' = currentVanId)]_vars

\* C26 witness: with two vehicles cached and one of them current, a load has
\* just failed and the pair is as it was
C26_Witness ==
    /\ ~disposed
    /\ lastResult.status = "LoadError"
    /\ Cardinality(DOMAIN vans) = 2
    /\ currentVanId \in DOMAIN vans
    /\ vans[currentVanId].model = currentVan
    /\ currentVan \in VisibleNodes(nodes)

\* C27 as claimed: every vehicle scene node attached to the scene is the node
\* of the entry the cache holds under its id, whatever the interleaving of
\* requests, two overlapping loads of the same uncached id included.
C27_AttachedNodesAreCached ==
    \A n \in 1..Len(nodes) :
        nodes[n].parent = "scene"
        => (Has(vans, nodes[n].van) /\ vans[nodes[n].van].model = n)

\* C28: whether a cached vehicle carries wheel clones is decided when its load
\* completes: the new node gets wheels only if the wheel preload had succeeded
\* by then (and then one per mount point of its graph), and no later step, a
\* later success of the wheel preload and a re-selection included, changes the
\* wheels of a node.
C28_WheelsDecidedAtLoad ==
    /\ [][\A n \in 1..Len(nodes) : nodes'[n].wheels = nodes[n].wheels]_vars
    /\ [][Len(nodes') > Len(nodes) =>
            LET node == nodes'[Len(nodes')]
                mounts == {k \in 1..Len(node.graph) : node.graph[k].name \in wheelPositions}
            IN /\ node.wheels # <<>> => (wheelModel # null /\ ~wheelPending)
               /\ wheelModel # null => Len(node.wheels) = Cardinality(mounts)]_vars
    /\ [](\A n \in 1..Len(nodes) : nodes[n].wheels # <<>> => wheelModel # null)

\* C28 witness: a vehicle with mount points was cached without wheels, the wheel
\* preload has succeeded since, and the vehicle was selected again from the
\* cache: it still has no wheels
C28_Witness ==
    /\ wheelModel # null
    /\ lastResult.op = "loadVan"
    /\ lastResult.status = "resolved"
    /\ "rid" \notin DOMAIN lastResult
    /\ currentVan = lastResult.value.model
    /\ nodes[currentVan].wheels = <<>>
    /\ \E k \in 1..Len(nodes[currentVan].graph) :
          nodes[currentVan].graph[k].name \in wheelPositions

\* C29: the memo is written only by a pass that completes, with the list of
\* that pass, so after two passes the memo is the list of the one that
\* completed last; a detectAvailableVans or getAvailableVansAsync call is
\* answered without a pass only when the memo is set, and a call made while an
\* earlier pass is in flight starts a pass of its own with all its checks.
C29_MemoSetOnCompletion ==
    /\ [][(vansDetected' # vansDetected \/ availableVans' # availableVans)
          => \E p \in passes :
                /\ \A q \in passes' : q.pid # p.pid
                /\ \A i \in 1..checkCount : p.outcome[i] # "pending"]_vars
    /\ [][\A p \in passes :
             (\A q \in passes' : q.pid # p.pid)
             => (vansDetected' /\ availableVans' = DetectedVans(p.outcome))]_vars
    /\ [][(lastResult' # lastResult /\ "checks" \notin DOMAIN lastResult')
          => (vansDetected /\ passCount' = passCount /\ headCalls' = headCalls)]_vars
    /\ [][passCount' # passCount
          => /\ ~vansDetected
             /\ headCalls' = headCalls + checkCount
             /\ \E p \in passes' \ passes :
                   \A i \in 1..checkCount : p.outcome[i] = "pending"]_vars
    /\ []((passes # {} /\ ~vansDetected /\ passCount < MaxPasses)
          => /\ ENABLED (DetectAvailableVans /\ passCount' = passCount + 1
                         /\ UNCHANGED otherVars)
             /\ ENABLED (GetAvailableVansAsync /\ passCount' = passCount + 1
                         /\ UNCHANGED otherVars))

\* C29 witness: two passes were started, which only overlapping calls can do,
\* both have completed, and the memo is the list of getAvailableVansAsync's
\* pass, the last to complete
C29_Witness ==
    /\ passCount = 2
    /\ passes = {}
    /\ vansDetected
    /\ lastResult.op = "getAvailableVansAsync"
    /\ "checks" \in DOMAIN lastResult
    /\ availableVans = DetectedVans(lastResult.checks)
    /\ Len(availableVans) = 1

\* C30: the small loader is displayed exactly while at least one onVanSelect
\* call is waiting for its load: shown when a selection starts, not hidden while
\* another selection is still loading, hidden once every selection has settled.
C30_LoaderShownWhileSelecting ==
    (smallLoader = "block") <=> (selections # {})

\* C33: at most one animation-frame callback is pending, a frame is pending
\* whenever isRunning is true and none when it is false, a frame is rendered
\* only while isRunning is true, start changes nothing while running and pause
\* changes nothing while paused.
C33_OneFramePending ==
    /\ [](Cardinality(frames) <= 1)
    /\ [](isRunning => frames = {animationId})
    /\ [](~isRunning => frames = {})
    /\ [][rendered' # rendered => isRunning']_vars
    /\ [](isRunning => ENABLED (Start /\ UNCHANGED loopVars))
    /\ [](~isRunning => ENABLED (Pause /\ UNCHANGED loopVars))

\* C33 witness: while init was still waiting for the garage the page was
\* shown, three frames were requested and rendered, and the page was hidden
\* again: the loop is paused with no frame pending
C33_Witness ==
    /\ initPc = "loadGarage"
    /\ ~isRunning
    /\ frameCount = 3
    /\ rendered = 3
    /\ frames = {}
    /\ animationId = 0

\* C31: once init has finished, whenever no onVanSelect call is waiting for
\* its load and at least one has got its vehicle, the list items marked active
\* are exactly the items of the manager's current vehicle id.
C31_ActiveItemIsCurrent ==
    (initPc = "done" /\ selections = {} /\ selected)
    => activeItems = MarkActive(vanList, currentVanId)

\* C32: the index switchToNextVan and switchToPreviousVan compute is within
\* 0..length-1 of the getAvailableVans list, also when the id of the current
\* vehicle is not in that list, so the id they request is one of the list; and
\* a cycle request that starts a load leaves the target of the next request in
\* the same direction as it was, so that request asks for the same id again.
C32_CycleStaysInList ==
    /\ [](LET list == getAvailableVans(vansDetected, availableVans)
              currentIndex == findIndex(list, currentVanId)
          IN (Len(list) > 0 /\ getCurrentVanInfo # <<>>)
             => /\ NextIndex(currentIndex, Len(list)) \in 0..Len(list) - 1
                /\ PrevIndex(currentIndex, Len(list)) \in 0..Len(list) - 1)
    /\ [][SwitchToNextVan =>
            \E i \in 1..Len(getAvailableVans(vansDetected, availableVans)) :
               Requested(getAvailableVans(vansDetected, availableVans)[i].id)]_vars
    /\ [][SwitchToPreviousVan =>
            \E i \in 1..Len(getAvailableVans(vansDetected, availableVans)) :
               Requested(getAvailableVans(vansDetected, availableVans)[i].id)]_vars
    /\ [][(SwitchToNextVan /\ requests' # requests) =>
            CycleTarget(getAvailableVans(vansDetected', availableVans'),
                        getCurrentVanInfo', "next")
            = CycleTarget(getAvailableVans(vansDetected, availableVans),
                          getCurrentVanInfo, "next")]_vars
    /\ [][(SwitchToPreviousVan /\ requests' # requests) =>
            CycleTarget(getAvailableVans(vansDetected', availableVans'),
                        getCurrentVanInfo', "previous")
            = CycleTarget(getAvailableVans(vansDetected, availableVans),
                          getCurrentVanInfo, "previous")]_vars

\* C32 witness: van-001 was loaded from the static list, the probe then found
\* van-002 only, and with no list item to click two cycle requests have each
\* started a load of van-002
C32_Witness ==
    /\ currentVanId = "van-001"
    /\ vansDetected
    /\ Len(availableVans) = 1
    /\ availableVans[1].id = "van-002"
    /\ vanList = <<>>
    /\ \E r1, r2 \in requests :
          /\ r1.rid # r2.rid
          /\ r1.id = "van-002" /\ r2.id = "van-002"
          /\ {r1.rid, r2.rid} \subseteq selections

====
